---- MODULE Spec2Model ----
(***************************************************************************)
(* SafePaws AI (STRAY-SAFE): the JSON document store of utils/storage.py,  *)
(* the bite-risk scoring engine of pages/ai_detection.py, and the handlers *)
(* of the pages that keep their data in the store.                         *)
(*                                                                         *)
(* The specifications of this module:                                      *)
(*   Spec       one caller using read/write of the document store          *)
(*   DateSpec   that caller writing documents that hold datetime objects   *)
(*   RaceSpec   several callers running create_notification concurrently   *)
(*   ScoreSpec  calculate_bite_risk_score / generate_safety_recommendations*)
(*              applied to questionnaire response mappings                 *)
(*   SubmitSpec the 'Calculate Bite Risk' handler, one session at a time   *)
(*   AnalyzeSpec the 'Run AI Analysis' trigger and its reruns              *)
(*   RouterSpec main.router: login, navigation, role gating, offline sync  *)
(*              (FairRouterSpec: with the auto-refresh as fairness)        *)
(*   AuthSpec   register / login / ensure_admin_exists of utils/auth.py    *)
(*   DamageSpec the read-append-write cycles over damaged files            *)
(*   FeedSpec   booking and cancelling feeding slots from two sessions     *)
(*   SosSpec    accepting, assigning and resolving an SOS from two sessions*)
(* Each specification leaves the variables of the others at their initial  *)
(* value.                                                                  *)
(***************************************************************************)
EXTENDS Integers, Sequences, FiniteSets, TLC

VARIABLES
    dirExists,          \* storage.py: the directory DATA_DIR exists
    files,              \* storage.py: DATA_DIR/<key>.json -> its text, for the files that exist
    written,            \* keys for which write() has opened the file at least once
    last,               \* the last store call of the single caller and its outcome
    pc,                 \* RaceSpec: each caller's position in create_notification
    notif,              \* RaceSpec: each caller's local list `notif`
    base,               \* RaceSpec: what each caller's storage.read returned (history)
    calls,              \* RaceSpec: the number of create_notification calls each caller began
    fpos,               \* RaceSpec: the offset of each caller's open file
    clock,              \* RaceSpec: the number of file opens and dumps so far (history)
    stamp,              \* RaceSpec: the clock at each caller's read, open and dump (history)
    responses,          \* ScoreSpec: the questionnaire mapping handed to the engine
    scored,             \* ScoreSpec: result of calculate_bite_risk_score, or NotCalled
    recommendations,    \* ScoreSpec: result of generate_safety_recommendations, or NotCalled
    located,            \* SubmitSpec: session_state.bite_last_geocoded_location is set
    now,                \* SubmitSpec: the clock, in seconds
    submissions,        \* SubmitSpec: the assessment of each submission so far (history)
    triggered,          \* AnalyzeSpec: session_state.analyze_triggered
    imgFiles,           \* AnalyzeSpec: the uploaded images, each readable or not
    results,            \* AnalyzeSpec: session_state.analysis_results (the predictions)
    clicks,             \* AnalyzeSpec: clicks of 'Run AI Analysis' so far (history)
    saves,              \* AnalyzeSpec: writes of the cases since the last click (history)
    expected,           \* AnalyzeSpec: readable images of the clicks not withdrawn (history)
    faults,             \* AnalyzeSpec: writes that raised so far (history)
    user,               \* RouterSpec: session_state.user, or NoUser
    nav,                \* RouterSpec: session_state.nav
    rendered,           \* RouterSpec: what the last script run put on the screen
    is_mobile_device,   \* RouterSpec: session_state.is_mobile_device
    online,             \* RouterSpec: what is_online() answers now (the network)
    offline_checked,    \* RouterSpec: "offline_checked" in session_state
    is_offline,         \* RouterSpec: session_state.is_offline
    was_offline,        \* RouterSpec: session_state.was_offline
    sync_attempted,     \* RouterSpec: session_state.sync_attempted
    pending,            \* RouterSpec: offline_cache/pending_sync.json, or NoFile
    syncCalls,          \* RouterSpec: calls of sync_offline_changes so far (history)
    returned,           \* AuthSpec: what the last call of utils.auth returned, or NoReturn (history)
    emailOf,            \* FeedSpec: the email of each session's user
    selected_slot,      \* FeedSpec: each session's session_state.selected_slot, or NoSlot
    show_slot_modal,    \* FeedSpec: each session's session_state.show_slot_modal
    feedData,           \* FeedSpec: the list each session's handler has read and not yet written, or JNull
    roleOf,             \* SosSpec: the role of each session's user
    sosRun,             \* SosSpec: the sos list the session's running script has read, or JNull
    assignedLog         \* SosSpec: the responders the stored SOS was assigned to, in order (history)

storeVars == <<dirExists, files, written, last>>
raceVars  == <<pc, notif, base, calls, fpos, clock, stamp>>
scoreVars == <<responses, scored, recommendations>>
submitVars == <<located, now, submissions>>
analyzeVars == <<triggered, imgFiles, results, clicks, saves, expected, faults>>
routerVars == <<user, nav, rendered, is_mobile_device, online, offline_checked, is_offline,
                was_offline, sync_attempted, pending, syncCalls>>
authVars == <<returned>>
\* the variables of the specifications further down
feedVars == <<emailOf, selected_slot, show_slot_modal, feedData>>
sosVars == <<roleOf, sosRun, assignedLog>>
laterVars == <<analyzeVars, routerVars, authVars, feedVars, sosVars>>
\* what the actions of each later specification leave alone besides their own variables
besidesAnalyze == <<routerVars, authVars, feedVars, sosVars>>
besidesRouter == <<storeVars, raceVars, scoreVars, submitVars, analyzeVars, authVars, feedVars, sosVars>>
besidesAuth == <<raceVars, scoreVars, submitVars, analyzeVars, routerVars, feedVars, sosVars>>
besidesFeed == <<raceVars, scoreVars, submitVars, analyzeVars, routerVars, authVars, sosVars>>
besidesSos == <<raceVars, scoreVars, submitVars, analyzeVars, routerVars, authVars, feedVars>>
vars      == <<dirExists, files, written, last, pc, notif, base, calls, fpos, clock, stamp,
               responses, scored, recommendations, located, now, submissions,
               triggered, imgFiles, results, clicks, saves, expected, faults,
               user, nav, rendered, is_mobile_device, online, offline_checked, is_offline,
               was_offline, sync_attempted, pending, syncCalls,
               returned,
               emailOf, selected_slot, show_slot_modal, feedData,
               roleOf, sosRun, assignedLog>>

(***************************************************************************)
(* Bounds of the model.                                                    *)
(***************************************************************************)
\* longest list written through the store by the single caller
MaxLen == 2
\* notifications one caller creates in RaceSpec
MaxCalls == 2
\* answers of a questionnaire that differ from a base profile
MaxChanged == 4
\* malformed entries (missing key, unknown key, unknown option) of a mapping
MaxMalformed == 2
\* entries by which the first response set of a compared pair differs from a base profile
MaxApart == 2
\* submissions of the bite-risk questionnaire
MaxSubmissions == 3
\* seconds the clock advances
MaxSeconds == 1
\* images uploaded for one analysis
MaxImages == 2
\* clicks of 'Run AI Analysis'
MaxClicks == 2
\* writes that raise
MaxFaults == 1

(***************************************************************************)
(* JSON values as Python holds them.  Every kind of value has its own      *)
(* field names, so values of different kinds are never equal.              *)
(* Python's None and JSON's null are the same value.                       *)
(***************************************************************************)
JNull == [type |-> "null"]
JInt(n) == [type |-> "int", n |-> n]
JStr(s) == [type |-> "str", s |-> s]
JList(items) == [type |-> "list", items |-> items]
JDict(fields) == [type |-> "dict", fields |-> fields]
\* a datetime.datetime object, the at-th of the instants of DateText
JDate(at) == [type |-> "datetime", at |-> at]

\* str(o) of each instant: the date and the time, with the microseconds if any
DateText == <<"2024-01-01 10:00:00", "2024-01-02 10:00:00.500000">>

EmptyFields == [x \in {} |-> JNull]
EmptyList == JList(<<>>)
EmptyDict == JDict(EmptyFields)

\* the order in which a dict's keys are emitted (any fixed order of its keys)
DictKeyOrder == <<"id", "disease", "disease_type", "user", "risk_score", "risk_level", "risk",
                  "label", "email", "password", "role", "event", "responses",
                  "aggression", "body_language", "eye_contact", "territorial", "past_behavior",
                  "approach", "food_guarding", "space", "health", "pack",
                  "location", "slots", "booked", "bookings",
                  "status", "assigned", "resolved_by">>

(***************************************************************************)
(* JSON text: a sequence of lexical tokens.  indent=2 only adds white      *)
(* space between tokens, which the lexer of json.load drops.               *)
(***************************************************************************)
Punct(c) == [k |-> "punct", c |-> c]
NumTok(n) == [k |-> "num", num |-> n]
StrTok(s) == [k |-> "string", str |-> s]
LitTok(w) == [k |-> "lit", word |-> w]
\* the place in the output at which the encoder raised
RaiseTok == [k |-> "raise"]

IsPunct(t, c) == t.k = "punct" /\ t.c = c

RECURSIVE json_dumps(_)
RECURSIVE DumpItems(_, _)
RECURSIVE DumpMembers(_, _)

\* the elements of a list from position i on, separated by commas
DumpItems(items, i) ==
    IF i > Len(items) THEN <<>>
    ELSE (IF i > 1 THEN <<Punct(",")>> ELSE <<>>)
         \o json_dumps(items[i]) \o DumpItems(items, i + 1)

\* the members of a dict whose keys are keys[1..], separated by commas
DumpMembers(fields, keys) ==
    IF keys = <<>> THEN <<>>
    ELSE <<StrTok(Head(keys)), Punct(":")>> \o json_dumps(fields[Head(keys)])
         \o (IF Len(keys) > 1 THEN <<Punct(",")>> ELSE <<>>)
         \o DumpMembers(fields, Tail(keys))

\* the keys of a dict in emission order
KeysOf(fields) == SelectSeq(DictKeyOrder, LAMBDA key : key \in DOMAIN fields)

\* a string is written between quotes: a string token
DumpString(s) == <<StrTok(s)>>

\* str(o)
PyStr(v) == DateText[v.at]

\* json.dump without default=: for a value that is not JSON-native the
\* encoder's own default() raises TypeError, the value stays as it is
DefaultAbsent(v) == v

\* default=str: what the encoder gets for a value that is not JSON-native
DefaultHook(v) == JStr(PyStr(v))

\* the value is one json encodes by itself
Native(v) == v.type \in {"null", "int", "str", "list", "dict"}

\* json.dump(data, f, indent=2, default=str): the tokens it emits; where the
\* encoder raises, RaiseTok
json_dumps(v) ==
    CASE v.type = "null" -> <<LitTok("null")>>
      [] v.type = "int"  -> <<NumTok(v.n)>>
      [] v.type = "str"  -> DumpString(v.s)
      [] v.type = "list" -> <<Punct("[")>> \o DumpItems(v.items, 1) \o <<Punct("]")>>
      [] v.type = "dict" -> <<Punct("{")>> \o DumpMembers(v.fields, KeysOf(v.fields))
                            \o <<Punct("}")>>
      [] OTHER -> IF Native(DefaultHook(v)) THEN json_dumps(DefaultHook(v)) ELSE <<RaiseTok>>

\* json.dump raised while it wrote `text`
DumpRaises(text) == \E i \in 1..Len(text) : text[i].k = "raise"

\* the part of `text` that reached the file: all of it, or what came before
\* the encoder raised
Emitted(text) ==
    IF DumpRaises(text)
    THEN SubSeq(text, 1, (CHOOSE i \in 1..Len(text) :
                             text[i].k = "raise" /\ \A j \in 1..(i - 1) : text[j].k # "raise") - 1)
    ELSE text

(***************************************************************************)
(* json.load: a recursive-descent parser.  Each parser returns whether it  *)
(* succeeded, the value, and the position after it.                        *)
(***************************************************************************)
ParseFail == [ok |-> FALSE, val |-> JNull, next |-> 0]
ParseOk(v, n) == [ok |-> TRUE, val |-> v, next |-> n]

RECURSIVE ParseValue(_, _)
RECURSIVE ParseItems(_, _, _)
RECURSIVE ParseMembers(_, _, _)

ParseItems(toks, i, acc) ==
    LET r == ParseValue(toks, i) IN
    IF ~r.ok \/ r.next > Len(toks) THEN ParseFail
    ELSE IF IsPunct(toks[r.next], ",") THEN ParseItems(toks, r.next + 1, Append(acc, r.val))
    ELSE IF IsPunct(toks[r.next], "]") THEN ParseOk(JList(Append(acc, r.val)), r.next + 1)
    ELSE ParseFail

ParseMembers(toks, i, acc) ==
    IF i + 1 > Len(toks) \/ toks[i].k # "string" \/ ~IsPunct(toks[i + 1], ":") THEN ParseFail
    ELSE LET r == ParseValue(toks, i + 2)
             \* a repeated key keeps its last value
             got == (toks[i].str :> r.val) @@ acc
         IN  IF ~r.ok \/ r.next > Len(toks) THEN ParseFail
             ELSE IF IsPunct(toks[r.next], ",") THEN ParseMembers(toks, r.next + 1, got)
             ELSE IF IsPunct(toks[r.next], "}") THEN ParseOk(JDict(got), r.next + 1)
             ELSE ParseFail

ParseValue(toks, i) ==
    IF i > Len(toks) THEN ParseFail
    ELSE LET t == toks[i] IN
         CASE t.k = "lit"    -> IF t.word = "null" THEN ParseOk(JNull, i + 1) ELSE ParseFail
           [] t.k = "num"    -> ParseOk(JInt(t.num), i + 1)
           [] t.k = "string" -> ParseOk(JStr(t.str), i + 1)
           [] t.k = "punct"  ->
                IF t.c = "[" THEN
                    IF i + 1 <= Len(toks) /\ IsPunct(toks[i + 1], "]")
                    THEN ParseOk(EmptyList, i + 2)
                    ELSE ParseItems(toks, i + 1, <<>>)
                ELSE IF t.c = "{" THEN
                    IF i + 1 <= Len(toks) /\ IsPunct(toks[i + 1], "}")
                    THEN ParseOk(EmptyDict, i + 2)
                    ELSE ParseMembers(toks, i + 1, EmptyFields)
                ELSE ParseFail

\* json.load(f): the whole text must be one value; anything else raises
json_load(text) ==
    LET r == ParseValue(text, 1) IN
    IF r.ok /\ r.next = Len(text) + 1 THEN [ok |-> TRUE, val |-> r.val]
    ELSE [ok |-> FALSE, val |-> JNull]

(***************************************************************************)
(* The file system under DATA_DIR.  `fs` maps the keys whose file exists   *)
(* to the file's text.                                                     *)
(***************************************************************************)
\* open(file, 'a') in place of 'w': the old content stays and output lands after it
open_a(fs, key) ==
    [fs  |-> IF key \in DOMAIN fs THEN fs ELSE (key :> <<>>) @@ fs,
     pos |-> IF key \in DOMAIN fs THEN Len(fs[key]) ELSE 0]

\* open(file, 'r+') in place of 'w': the old content stays and output replaces it
\* from the start on
open_rw(fs, key) ==
    [fs  |-> IF key \in DOMAIN fs THEN fs ELSE (key :> <<>>) @@ fs,
     pos |-> 0]

\* open(file, 'w'): creates the file if absent, truncates it, and positions
\* the writer at offset 0
open_w(fs, key) == [fs |-> (key :> <<>>) @@ fs, pos |-> 0]

\* every key kept in one shared file: the output shows under every key that exists
FileWriteShared(fs, key, pos, text) == [k \in DOMAIN fs |-> text]

\* the buffered output `text` reaches the file at offset `pos` when it is closed:
\* it replaces the tokens at pos+1..pos+Len(text) and leaves the rest of the file
file_write(fs, key, pos, text) ==
    LET old == fs[key] IN
    (key :> (SubSeq(old, 1, pos) \o text \o SubSeq(old, pos + Len(text) + 1, Len(old)))) @@ fs

\* storage.write(key, data), run to completion
write(fs, key, data) ==
    LET f == open_w(fs, key) IN file_write(f.fs, key, f.pos, Emitted(json_dumps(data)))

\* write with `try: ... except Exception: pass` around its body
WriteSwallows(failure) == FALSE

\* write has no except clause: a failure of open (the directory is missing,
\* permission is denied), of the output (the disk is full) or of the encoder
\* leaves the function as an exception
WriteRaises(failure) == failure # "none"

\* the try block with `return data` in place of the isinstance checks
ReadTryNoGuard(fs, key, default) ==
    LET r == json_load(fs[key]) IN
    IF ~r.ok THEN [raised |-> TRUE, value |-> JNull]
    ELSE [raised |-> FALSE, value |-> r.val]

\* the try block of storage.read: what it returns, or that it raised
ReadTry(fs, key, default) ==
    LET r == json_load(fs[key]) IN
    IF ~r.ok THEN [raised |-> TRUE, value |-> JNull]
    ELSE IF default = JNull
         THEN [raised |-> FALSE,
               value |-> IF r.val.type = "list" THEN r.val ELSE EmptyList]
         ELSE [raised |-> FALSE,
               value |-> IF r.val.type = default.type THEN r.val ELSE default]

\* `return default if default is not None else []`
DefaultOr(default) == IF default # JNull THEN default ELSE EmptyList

\* storage.read without its except clause
ReadNoExcept(fs, key, default) ==
    IF key \in DOMAIN fs
    THEN ReadTry(fs, key, default)
    ELSE [raised |-> FALSE, value |-> DefaultOr(default)]

\* storage.read(key, default)
read(fs, key, default) ==
    IF key \in DOMAIN fs
    THEN LET t == ReadTry(fs, key, default) IN
         IF t.raised THEN [raised |-> FALSE, value |-> DefaultOr(default)] ELSE t
    ELSE [raised |-> FALSE, value |-> DefaultOr(default)]

\* the file opened with 'a+' in place of 'r': a missing file is created empty
ReadEffectCreates(fs, key) == IF key \in DOMAIN fs THEN fs ELSE (key :> <<>>) @@ fs

\* the files after storage.read: open(file, 'r') creates and changes nothing
ReadEffect(fs, key) == fs

(***************************************************************************)
(* The variables of a specification that is not running.                    *)
(***************************************************************************)
NotCalled == [called |-> FALSE]

NoCall == [op |-> "none", key |-> "", arg |-> JNull, failure |-> "none", raised |-> FALSE,
           value |-> JNull, replaced |-> FALSE]

StoreIdle ==
    /\ dirExists = TRUE
    /\ files = [k \in {} |-> <<>>]
    /\ written = {}
    /\ last = NoCall

RaceIdle ==
    /\ pc = <<>>
    /\ notif = <<>>
    /\ base = <<>>
    /\ calls = <<>>
    /\ fpos = <<>>
    /\ clock = 0
    /\ stamp = <<>>

ScoreIdle ==
    /\ responses = <<>>
    /\ scored = NotCalled
    /\ recommendations = NotCalled

SubmitIdle ==
    /\ located = FALSE
    /\ now = 0
    /\ submissions = <<>>

AnalyzeIdle ==
    /\ triggered = FALSE
    /\ imgFiles = <<>>
    /\ results = <<>>
    /\ clicks = 0
    /\ saves = 0
    /\ expected = 0
    /\ faults = 0

NoUser == [present |-> FALSE]

NoFile == [exists |-> FALSE]

RouterIdle ==
    /\ user = NoUser
    /\ nav = "Dashboard"
    /\ rendered = "nothing"
    /\ is_mobile_device = FALSE
    /\ online = TRUE
    /\ offline_checked = FALSE
    /\ is_offline = FALSE
    /\ was_offline = FALSE
    /\ sync_attempted = FALSE
    /\ pending = NoFile
    /\ syncCalls = 0

NoReturn == [op |-> "none"]

AuthIdle ==
    /\ returned = NoReturn

FeedIdle ==
    /\ emailOf = <<>>
    /\ selected_slot = <<>>
    /\ show_slot_modal = <<>>
    /\ feedData = <<>>

SosIdle ==
    /\ roleOf = <<>>
    /\ sosRun = <<>>
    /\ assignedLog = <<>>

LaterIdle == AnalyzeIdle /\ RouterIdle /\ AuthIdle /\ FeedIdle /\ SosIdle

(***************************************************************************)
(* Spec: one caller of the document store.                                 *)
(***************************************************************************)
Keys == {"notifications", "audit"}

\* lists of up to MaxLen numbers and strings, a list of one record, and dicts
Elements == {JInt(1), JStr("1")}
ListDocs == UNION {{JList(s) : s \in [1..n -> Elements]} : n \in 0..MaxLen}
              \cup {JList(<<JDict([id |-> JStr("1")])>>)}
DictDocs == {EmptyDict, JDict([id |-> JList(<<JNull>>)]),
             JDict([id |-> JInt(1), user |-> JStr("1")])}
Docs == ListDocs \cup DictDocs

\* read(key), read(key, []) and read(key, {})
Defaults == {JNull, EmptyList, EmptyDict}

\* the texts a write leaves behind when it stops part-way: the proper prefixes
PartialTexts ==
    UNION {{SubSeq(json_dumps(d), 1, n) : n \in 0..(Len(json_dumps(d)) - 1)} : d \in Docs}

\* what the file of `key` holds
FileKind(fs, key) ==
    IF key \notin DOMAIN fs THEN "absent"
    ELSE IF fs[key] = <<>> THEN "empty"
    ELSE LET r == json_load(fs[key]) IN IF r.ok THEN r.val.type ELSE "invalid"

\* the file of `key` holds a non-empty list or dict
HoldsRecords(fs, key) ==
    /\ FileKind(fs, key) \in {"list", "dict"}
    /\ json_load(fs[key]).val \notin {EmptyList, EmptyDict}

StoreInit == StoreIdle

\* what goes wrong in storage.write(key, data): open() raises
\* FileNotFoundError when there is no directory to create the file in, the
\* encoder raises on a value it cannot serialize
WriteFailure(data) ==
    IF ~dirExists THEN "open"
    ELSE IF DumpRaises(json_dumps(data)) THEN "encode"
    ELSE "none"

\* storage.write(key, data) by the caller
Write(key, data) ==
    /\ IF dirExists
       THEN /\ files' = write(files, key, data)
            /\ written' = written \cup {key}
       ELSE UNCHANGED <<files, written>>
    /\ last' = [op |-> "write", key |-> key, arg |-> data, failure |-> WriteFailure(data),
                raised |-> WriteRaises(WriteFailure(data)), value |-> JNull,
                replaced |-> HoldsRecords(files, key) /\ json_load(files[key]).val # data]
    /\ UNCHANGED <<dirExists, raceVars, scoreVars, submitVars, laterVars>>

\* storage.write(key, data) that stops after the open and part of the output
\* (the process is killed, the disk fills up): `text` is what reached the file
WriteInterrupted(key, text) ==
    /\ dirExists
    /\ LET f == open_w(files, key) IN files' = file_write(f.fs, key, f.pos, text)
    /\ written' = written \cup {key}
    /\ last' = [op |-> "write", key |-> key, arg |-> JNull, failure |-> "output",
                raised |-> WriteRaises("output"), value |-> JNull,
                replaced |-> HoldsRecords(files, key)]
    /\ UNCHANGED <<dirExists, raceVars, scoreVars, submitVars, laterVars>>

\* storage.read(key, default) by the caller
Read(key, default) ==
    /\ files' = ReadEffect(files, key)
    /\ LET r == read(files, key, default) IN
       last' = [op |-> "read", key |-> key, arg |-> default, failure |-> "none",
                raised |-> r.raised, value |-> r.value, replaced |-> FALSE]
    /\ UNCHANGED <<dirExists, written, raceVars, scoreVars, submitVars, laterVars>>

\* the data directory is removed from outside the program
RemoveDir ==
    /\ dirExists
    /\ dirExists' = FALSE
    /\ files' = [k \in {} |-> <<>>]
    /\ last' = NoCall
    /\ UNCHANGED <<written, raceVars, scoreVars, submitVars, laterVars>>

\* the module is imported again (the app restarts): DATA_DIR.mkdir(exist_ok=True)
ImportStorage ==
    /\ dirExists' = TRUE
    /\ last' = NoCall
    /\ UNCHANGED <<files, written, raceVars, scoreVars, submitVars, laterVars>>

Init == StoreInit /\ RaceIdle /\ ScoreIdle /\ SubmitIdle /\ LaterIdle

Next ==
    \/ \E key \in Keys, data \in Docs : Write(key, data)
    \/ \E key \in Keys, text \in PartialTexts : WriteInterrupted(key, text)
    \/ \E key \in Keys, default \in Defaults : Read(key, default)
    \/ RemoveDir
    \/ ImportStorage

Spec == Init /\ [][Next]_vars

(***************************************************************************)
(* DateSpec: the caller writes documents that hold datetime objects.       *)
(***************************************************************************)
\* documents with a datetime in a list, in a nested list, in a record and
\* beside JSON-native values, and a document without one
DateDocs ==
    {JList(<<JDate(1)>>),
     JList(<<JInt(1), JDate(2), JStr("1")>>),
     JList(<<JList(<<JDate(1), JNull>>)>>),
     JList(<<JDict([id |-> JInt(1), user |-> JDate(2)])>>),
     JDict([id |-> JDate(1), user |-> JStr("1")]),
     JDict([id |-> JStr("2024-01-01 10:00:00"), user |-> JDate(1)]),
     JList(<<JStr("1")>>)}

DateNext ==
    \/ \E key \in Keys, data \in DateDocs : Write(key, data)
    \/ \E key \in Keys, default \in Defaults : Read(key, default)

DateSpec == Init /\ [][DateNext]_vars

(***************************************************************************)
(* RaceSpec: two sessions run create_notification (components.py) at the   *)
(* same time.  Each session is a thread of the one server process; the     *)
(* threads interleave between the statements of the function and between   *)
(* the open and the close of the file.                                     *)
(***************************************************************************)
Callers == {1, 2}
NotifKey == "notifications"

\* the record of caller p's n-th notification (id and user stand for its fields)
NotifRecord(p, n) == JDict([id |-> JInt(n), user |-> JInt(p)])

\* the list rebuilt from the new record alone
OnlyRecord(list, record) == JList(<<record>>)

\* notif.append(record)
AppendRecord(list, record) == JList(Append(list.items, record))

RaceInit ==
    /\ pc = [p \in Callers |-> "idle"]
    /\ notif = [p \in Callers |-> EmptyList]
    /\ base = [p \in Callers |-> EmptyList]
    /\ calls = [p \in Callers |-> 0]
    /\ fpos = [p \in Callers |-> 0]
    /\ clock = 0
    /\ stamp = [p \in Callers |-> [read |-> 0, open |-> 0, done |-> 0]]

\* notif = storage.read("notifications", [])
NotifRead(p) ==
    /\ pc[p] = "idle"
    /\ calls[p] < MaxCalls
    /\ LET r == read(files, NotifKey, EmptyList).value IN
       /\ notif' = [notif EXCEPT ![p] = IF r.type = "list" THEN r ELSE EmptyList]
       /\ base' = [base EXCEPT ![p] = r]
    /\ calls' = [calls EXCEPT ![p] = @ + 1]
    /\ stamp' = [stamp EXCEPT ![p].read = clock]
    /\ pc' = [pc EXCEPT ![p] = "read"]
    /\ UNCHANGED <<storeVars, fpos, clock, scoreVars, submitVars, laterVars>>

\* notif.append({...})
NotifAppend(p) ==
    /\ pc[p] = "read"
    /\ notif' = [notif EXCEPT ![p] = AppendRecord(@, NotifRecord(p, calls[p]))]
    /\ pc' = [pc EXCEPT ![p] = "appended"]
    /\ UNCHANGED <<storeVars, base, calls, fpos, clock, stamp, scoreVars, submitVars, laterVars>>

\* storage.write("notifications", notif): open(file, 'w')
NotifOpen(p) ==
    /\ pc[p] = "appended"
    /\ LET f == open_w(files, NotifKey) IN
       /\ files' = f.fs
       /\ fpos' = [fpos EXCEPT ![p] = f.pos]
    /\ written' = written \cup {NotifKey}
    /\ clock' = clock + 1
    /\ stamp' = [stamp EXCEPT ![p].open = clock + 1]
    /\ pc' = [pc EXCEPT ![p] = "opened"]
    /\ UNCHANGED <<dirExists, last, notif, base, calls, scoreVars, submitVars, laterVars>>

\* storage.write("notifications", notif): json.dump and the close of the file
NotifDump(p) ==
    /\ pc[p] = "opened"
    /\ files' = file_write(files, NotifKey, fpos[p], json_dumps(notif[p]))
    /\ clock' = clock + 1
    /\ stamp' = [stamp EXCEPT ![p].done = clock + 1]
    /\ pc' = [pc EXCEPT ![p] = "idle"]
    /\ UNCHANGED <<dirExists, written, last, notif, base, calls, fpos, scoreVars, submitVars, laterVars>>

RaceNext ==
    \/ \E p \in Callers : NotifRead(p)
    \/ \E p \in Callers : NotifAppend(p)
    \/ \E p \in Callers : NotifOpen(p)
    \/ \E p \in Callers : NotifDump(p)

RaceStart == StoreIdle /\ RaceInit /\ ScoreIdle /\ SubmitIdle /\ LaterIdle

RaceSpec == RaceStart /\ [][RaceNext]_vars

(***************************************************************************)
(* The bite-risk scoring engine (pages/ai_detection.py).                   *)
(* The advisory strings are written without their leading emoji.           *)
(***************************************************************************)
\* the ten questions, in the order of the questionnaire
QuestionKeys == <<"aggression", "body_language", "eye_contact", "territorial",
                  "past_behavior", "approach", "food_guarding", "space", "health", "pack">>

\* the options of each st.selectbox, in the order shown
QuestionOptions ==
    [aggression    |-> <<"Friendly/Calm", "Neutral/Cautious", "Defensive",
                         "Aggressive/Growling", "Attacking/Lunging">>,
     body_language |-> <<"Relaxed (wagging tail, soft ears)", "Alert (ears up, attentive)",
                         "Tense (stiff body, raised hackles)", "Cowering/Fearful",
                         "Showing teeth/Snarling">>,
     eye_contact   |-> <<"Soft/Avoidant", "Normal", "Direct stare",
                         "Fixed stare with tension">>,
     territorial   |-> <<"Not territorial", "Mild (barking)", "Moderate (blocking path)",
                         "Highly territorial (charging)">>,
     past_behavior |-> <<"Never aggressive", "Rare incidents", "Multiple incidents",
                         "Frequent attacks">>,
     approach      |-> <<"Friendly approach", "Cautious but friendly",
                         "Avoidant/Backing away", "Warning signs (barking/growling)",
                         "Charging/Lunging">>,
     food_guarding |-> <<"No guarding", "Mild (tense when eating)",
                         "Moderate (growls near food)", "Severe (snaps/bites near food)">>,
     space         |-> <<"Comfortable with proximity", "Prefers distance",
                         "Shows discomfort when approached", "Actively defends space">>,
     health        |-> <<"Appears healthy", "Minor issues (limping)", "Visible injuries",
                         "Signs of rabies/severe illness">>,
     pack          |-> <<"Alone", "With one other dog", "In small pack (2-3)",
                         "Large pack (4+)">>]

\* the scoring weights of each question
score_map ==
    [aggression    |-> ("Friendly/Calm" :> 0 @@ "Neutral/Cautious" :> 5 @@ "Defensive" :> 10
                        @@ "Aggressive/Growling" :> 20 @@ "Attacking/Lunging" :> 30),
     body_language |-> ("Relaxed (wagging tail, soft ears)" :> 0
                        @@ "Alert (ears up, attentive)" :> 5
                        @@ "Tense (stiff body, raised hackles)" :> 15
                        @@ "Cowering/Fearful" :> 10 @@ "Showing teeth/Snarling" :> 25),
     eye_contact   |-> ("Soft/Avoidant" :> 0 @@ "Normal" :> 3 @@ "Direct stare" :> 10
                        @@ "Fixed stare with tension" :> 20),
     territorial   |-> ("Not territorial" :> 0 @@ "Mild (barking)" :> 5
                        @@ "Moderate (blocking path)" :> 10
                        @@ "Highly territorial (charging)" :> 20),
     past_behavior |-> ("Never aggressive" :> 0 @@ "Rare incidents" :> 10
                        @@ "Multiple incidents" :> 20 @@ "Frequent attacks" :> 30),
     approach      |-> ("Friendly approach" :> 0 @@ "Cautious but friendly" :> 3
                        @@ "Avoidant/Backing away" :> 8
                        @@ "Warning signs (barking/growling)" :> 15
                        @@ "Charging/Lunging" :> 25),
     food_guarding |-> ("No guarding" :> 0 @@ "Mild (tense when eating)" :> 5
                        @@ "Moderate (growls near food)" :> 12
                        @@ "Severe (snaps/bites near food)" :> 20),
     space         |-> ("Comfortable with proximity" :> 0 @@ "Prefers distance" :> 3
                        @@ "Shows discomfort when approached" :> 10
                        @@ "Actively defends space" :> 18),
     health        |-> ("Appears healthy" :> 0 @@ "Minor issues (limping)" :> 5
                        @@ "Visible injuries" :> 10
                        @@ "Signs of rabies/severe illness" :> 25),
     pack          |-> ("Alone" :> 5 @@ "With one other dog" :> 3
                        @@ "In small pack (2-3)" :> 8 @@ "Large pack (4+)" :> 15)]

\* dict.get(key, default)
Get(d, key, default) == IF key \in DOMAIN d THEN d[key] ELSE default

NoWeights == [x \in {} |-> 0]

\* the lookup with 1 as the default of the inner get
WeightDefaultOne(key, value) == Get(Get(score_map, key, NoWeights), value, 1)

\* score_map.get(key, {}).get(value, 0)
Weight(key, value) == Get(Get(score_map, key, NoWeights), value, 0)

\* sum(... for key, value in responses.items()) over the keys in `keys`
RECURSIVE SumWeights(_, _)
SumWeights(resp, keys) ==
    IF keys = {} THEN 0
    ELSE LET key == CHOOSE x \in keys : TRUE IN
         Weight(key, resp[key]) + SumWeights(resp, keys \ {key})

\* sum({...}) in place of sum(...): equal weights are counted once
RECURSIVE SumSet(_)
SumSet(ws) == IF ws = {} THEN 0 ELSE LET w == CHOOSE x \in ws : TRUE IN w + SumSet(ws \ {w})
TotalOfDistinct(resp) == SumSet({Weight(key, resp[key]) : key \in DOMAIN resp})

\* total_score = sum(score_map.get(key, {}).get(value, 0) for key, value in responses.items())
total_score(resp) == SumWeights(resp, DOMAIN resp)

\* the thresholds compared with < in place of <=
RiskLevelExclusive(total) ==
    IF total < 20 THEN "Low Risk"
    ELSE IF total < 50 THEN "Moderate Risk"
    ELSE IF total < 80 THEN "High Risk"
    ELSE "Critical Risk"

\* the chain with the Moderate and High branches exchanged
RiskLevelSwapped(total) ==
    IF total <= 20 THEN "Low Risk"
    ELSE IF total <= 50 THEN "High Risk"
    ELSE IF total <= 80 THEN "Moderate Risk"
    ELSE "Critical Risk"

\* the if/elif chain that determines the risk level
RiskLevel(total) ==
    IF total <= 20 THEN "Low Risk"
    ELSE IF total <= 50 THEN "Moderate Risk"
    ELSE IF total <= 80 THEN "High Risk"
    ELSE "Critical Risk"

\* calculate_bite_risk_score(responses): (total_score, risk_level)
calculate_bite_risk_score(resp) ==
    [called |-> TRUE, score |-> total_score(resp), level |-> RiskLevel(total_score(resp))]

\* the advisory strings, by the question whose rule appends them
Advisory ==
    [aggression    |-> "Maintain safe distance - Do not approach",
     territorial   |-> "Avoid entering the dog's territory - Choose alternate route",
     approach      |-> "Do not attempt to pet or interact",
     health        |-> "RABIES RISK - Contact health department immediately",
     pack          |-> "Pack behavior increases unpredictability - Extra caution needed",
     food_guarding |-> "Never approach when dog is eating or near food"]

\* the options that trigger each rule
Dangerous ==
    [aggression    |-> {"Aggressive/Growling", "Attacking/Lunging"},
     territorial   |-> {"Moderate (blocking path)", "Highly territorial (charging)"},
     approach      |-> {"Warning signs (barking/growling)", "Charging/Lunging"},
     health        |-> {"Signs of rabies/severe illness"},
     pack          |-> {"In small pack (2-3)", "Large pack (4+)"},
     food_guarding |-> {"Moderate (growls near food)", "Severe (snaps/bites near food)"}]

\* the rules in the order the function evaluates them
RuleOrder == <<"aggression", "territorial", "approach", "health", "pack", "food_guarding">>

\* the rule fires unless the first option of the question is selected
FiresUnlessFirst(resp, q) == q \in DOMAIN resp /\ resp[q] # QuestionOptions[q][1]

\* the aggression rule also looking at the body language answer
FiresOnBodyLanguage(resp, q) ==
    \/ q \in DOMAIN resp /\ resp[q] \in Dangerous[q]
    \/ /\ q = "aggression"
       /\ "body_language" \in DOMAIN resp
       /\ resp["body_language"] = "Showing teeth/Snarling"

\* `if responses.get(q) in [...]`: responses.get gives None for a missing key
Fires(resp, q) == q \in DOMAIN resp /\ resp[q] \in Dangerous[q]

\* every advisory appended as soon as the level is above Low Risk
RuleByLevel(resp, q) ==
    IF RiskLevel(total_score(resp)) # "Low Risk" THEN <<Advisory[q]>> ELSE <<>>

\* one rule: `if ...: recommendations.append(...)`
Rule(resp, q) == IF Fires(resp, q) THEN <<Advisory[q]>> ELSE <<>>

\* the food-guarding rule evaluated first instead of last
RecommendationsFoodFirst(resp) ==
    Rule(resp, "food_guarding") \o Rule(resp, "aggression") \o Rule(resp, "territorial")
    \o Rule(resp, "approach") \o Rule(resp, "health") \o Rule(resp, "pack")

\* generate_safety_recommendations(responses)
generate_safety_recommendations(resp) ==
    Rule(resp, "aggression") \o Rule(resp, "territorial") \o Rule(resp, "approach")
    \o Rule(resp, "health") \o Rule(resp, "pack") \o Rule(resp, "food_guarding")

(***************************************************************************)
(* ScoreSpec: the engine applied to response mappings.  A mapping is one   *)
(* of the base profiles with up to MaxChanged answers replaced by other    *)
(* options of the same question, or with up to MaxMalformed entries        *)
(* replaced, removed or added in any way (an option of the question, an    *)
(* unknown option, no entry, an entry under an unknown key), or empty.     *)
(***************************************************************************)
OptionSet(q) == {QuestionOptions[q][i] : i \in 1..Len(QuestionOptions[q])}

\* the questionnaire as the page first shows it: every selectbox on its first option
DefaultResponses == [q \in DOMAIN QuestionOptions |-> QuestionOptions[q][1]]

\* the responses of the end-to-end scenario
EndToEndResponses ==
    [aggression    |-> "Attacking/Lunging",
     body_language |-> "Showing teeth/Snarling",
     eye_contact   |-> "Fixed stare with tension",
     territorial   |-> "Highly territorial (charging)",
     past_behavior |-> "Frequent attacks",
     approach      |-> "Charging/Lunging",
     food_guarding |-> "Severe (snaps/bites near food)",
     space         |-> "Actively defends space",
     health        |-> "Appears healthy",
     pack          |-> "Alone"]

BaseProfiles == {DefaultResponses, EndToEndResponses}

UnknownKey == "mood"
UnknownOption == "Unsure"

\* marks an entry that the mapping does not have
Missing == "(missing)"

\* the sets of at most n of the keys
KeySets(keys, n) == {S \in SUBSET keys : Cardinality(S) <= n}

QuestionSet == {QuestionKeys[i] : i \in 1..Len(QuestionKeys)}

\* what the entry under q may be when the entries of S are the ones replaced:
\* for q outside S the base profile's, for q in S anything else out of
\* the question's options and `extra`
Alt(b, S, extra, q) ==
    IF q \in S THEN (OptionSet(q) \cup extra) \ {b[q]} ELSE {b[q]}

\* the base profile b with the entries of S replaced
Variants(b, S, extra) ==
    [aggression    : Alt(b, S, extra, "aggression"),
     body_language : Alt(b, S, extra, "body_language"),
     eye_contact   : Alt(b, S, extra, "eye_contact"),
     territorial   : Alt(b, S, extra, "territorial"),
     past_behavior : Alt(b, S, extra, "past_behavior"),
     approach      : Alt(b, S, extra, "approach"),
     food_guarding : Alt(b, S, extra, "food_guarding"),
     space         : Alt(b, S, extra, "space"),
     health        : Alt(b, S, extra, "health"),
     pack          : Alt(b, S, extra, "pack"),
     mood          : IF UnknownKey \in S THEN {UnknownOption, "Alone"} ELSE {Missing}]

\* the mapping that has the entries of raw that are not marked missing
Strip(raw) == [q \in {x \in DOMAIN raw : raw[x] # Missing} |-> raw[q]]

EmptyResponses == [q \in {} |-> Missing]

ScoreInit ==
    /\ \E b \in BaseProfiles :
          \/ \E S \in KeySets(QuestionSet, MaxChanged) :
                \E raw \in Variants(b, S, {}) : responses = Strip(raw)
          \/ \E S \in KeySets(QuestionSet \cup {UnknownKey}, MaxMalformed) :
                \E raw \in Variants(b, S, {UnknownOption, Missing}) : responses = Strip(raw)
          \/ responses = EmptyResponses
    /\ scored = NotCalled
    /\ recommendations = NotCalled

\* risk_score, risk_level = calculate_bite_risk_score(responses)
CalculateScore ==
    /\ scored = NotCalled
    /\ scored' = calculate_bite_risk_score(responses)
    /\ UNCHANGED <<responses, recommendations, storeVars, raceVars, submitVars, laterVars>>

\* recommendations = generate_safety_recommendations(responses)
GenerateRecommendations ==
    /\ scored # NotCalled
    /\ recommendations = NotCalled
    /\ recommendations' = [called |-> TRUE, list |-> generate_safety_recommendations(responses)]
    /\ UNCHANGED <<responses, scored, storeVars, raceVars, submitVars, laterVars>>

ScoreStart == StoreIdle /\ RaceIdle /\ ScoreInit /\ SubmitIdle /\ LaterIdle

ScoreNext ==
    \/ CalculateScore
    \/ GenerateRecommendations

ScoreSpec == ScoreStart /\ [][ScoreNext]_vars

(***************************************************************************)
(* SubmitSpec: the 'Calculate Bite Risk' button of the bite-risk tab.  A   *)
(* click runs the handler to its end; the sessions click one after another.*)
(***************************************************************************)
AssessmentKey == "bite_assessments"
HotspotKey == "hotspots"

\* values of uuid.uuid4().hex[:4]: two of the 16^4 strings of four hex digits
HexChoices == {"0a1b", "c3d4"}

\* f"BR-{int(dt.datetime.now().timestamp())}-{uuid.uuid4().hex[:4]}"
AssessmentId(second, hex) == "BR-" \o ToString(second) \o "-" \o hex

\* f"HS-{int(dt.datetime.now().timestamp())}-{uuid.uuid4().hex[:4]}"
HotspotId(second, hex) == "HS-" \o ToString(second) \o "-" \o hex

\* the responses dict as it is stored
StoredResponses(resp) == JDict([q \in DOMAIN resp |-> JStr(resp[q])])

\* the assessment record with the defaults of the widgets in place of the answers
AssessmentOfDefaults(id, result, resp) ==
    JDict([id |-> JStr(id), risk_score |-> JInt(result.score), risk_level |-> JStr(result.level),
           responses |-> StoredResponses([q \in DOMAIN resp |-> QuestionOptions[q][1]])])

\* the assessment record (its id, risk_score, risk_level and responses fields)
Assessment(id, result, resp) ==
    JDict([id |-> JStr(id), risk_score |-> JInt(result.score), risk_level |-> JStr(result.level),
           responses |-> StoredResponses(resp)])

\* the hotspot record (its id, risk and label fields)
Hotspot(id, result) ==
    JDict([id |-> JStr(id), risk |-> JInt(result.score),
           label |-> JStr("Bite Risk: " \o result.level)])

\* storage.read(key, []) followed by `if not isinstance(x, list): x = []`
ReadList(fs, key) ==
    LET r == read(fs, key, EmptyList).value IN IF r.type = "list" THEN r ELSE EmptyList

\* read the collection, append the record, write the collection
AppendTo(fs, key, record) == write(fs, key, AppendRecord(ReadList(fs, key), record))

SubmitInit ==
    /\ located = FALSE
    /\ now = 0
    /\ submissions = <<>>

\* the user selects or confirms a location on the map
ConfirmLocation ==
    /\ ~located
    /\ located' = TRUE
    /\ UNCHANGED <<now, submissions, storeVars, raceVars, scoreVars, laterVars>>

\* the user switches the location mode: the location is reset
ChangeLocationMode ==
    /\ located
    /\ located' = FALSE
    /\ UNCHANGED <<now, submissions, storeVars, raceVars, scoreVars, laterVars>>

\* a second passes
Tick ==
    /\ now < MaxSeconds
    /\ now' = now + 1
    /\ UNCHANGED <<located, submissions, storeVars, raceVars, scoreVars, laterVars>>

\* the handler of the 'Calculate Bite Risk' button, enabled once a location
\* is set: score the responses, keep the results in the session, append the
\* assessment and the hotspot
Submit(resp, hex, hotspotHex) ==
    /\ located
    /\ Len(submissions) < MaxSubmissions
    /\ LET result == calculate_bite_risk_score(resp)
           assessment == Assessment(AssessmentId(now, hex), result, resp)
           hotspot == Hotspot(HotspotId(now, hotspotHex), result)
       IN  /\ responses' = resp
           /\ scored' = result
           /\ recommendations' = [called |-> TRUE, list |-> generate_safety_recommendations(resp)]
           /\ files' = AppendTo(AppendTo(files, AssessmentKey, assessment), HotspotKey, hotspot)
           /\ written' = written \cup {AssessmentKey, HotspotKey}
           /\ submissions' = Append(submissions, assessment)
    /\ UNCHANGED <<dirExists, last, located, now, raceVars, laterVars>>

SubmitStart == StoreIdle /\ RaceIdle /\ ScoreIdle /\ SubmitInit /\ LaterIdle

SubmitNext ==
    \/ ConfirmLocation
    \/ ChangeLocationMode
    \/ Tick
    \/ \E resp \in BaseProfiles, hex \in HexChoices, hotspotHex \in HexChoices :
          Submit(resp, hex, hotspotHex)

SubmitSpec == SubmitStart /\ [][SubmitNext]_vars

(***************************************************************************)
(* AnalyzeSpec: the 'Run AI Analysis' button of the disease tab           *)
(* (pages/ai_detection.py), with a location confirmed.  The script runs   *)
(* again on every interaction and on every auto-refresh; a run that is    *)
(* stopped before `results` is assigned changes nothing.                  *)
(***************************************************************************)
CasesKey == "cases"

\* classes the model predicts (two of them)
Predictions == {"healthy", "ringworm"}

\* the uploads: up to MaxImages files, at least one, each readable or not
ImageSets == UNION {[1..n -> BOOLEAN] : n \in 1..MaxImages}

\* the files that Image.open can read
Readable(imgs) == SelectSeq(imgs, LAMBDA ok : ok)

\* the case record of a result (its disease field)
Case(pred) == JDict([disease |-> JStr(pred)])

\* the hotspot record of a result (its disease_type field)
DiseaseHotspot(pred) == JDict([disease_type |-> JStr(pred)])

\* the results that get a hotspot: `if r["prediction"] != "healthy"`
NotHealthy(preds) == SelectSeq(preds, LAMBDA pred : pred # "healthy")

\* the collection of `key` with one record per result appended
WithRecords(fs, key, records) ==
    JList(ReadList(fs, key).items \o records)

\* cases.append(case) for every result
CasesWith(fs, preds) ==
    WithRecords(fs, CasesKey, [i \in 1..Len(preds) |-> Case(preds[i])])

\* hotspots.append(hotspot) for every result that is not healthy
HotspotsWith(fs, preds) ==
    WithRecords(fs, HotspotKey,
                [i \in 1..Len(NotHealthy(preds)) |-> DiseaseHotspot(NotHealthy(preds)[i])])

\* the analysis block runs: analyze_triggered is set and there are images
CanAnalyze == triggered /\ imgFiles # <<>>

\* the predictions of one run, one per readable image
RunResults == [1..Len(Readable(imgFiles)) -> Predictions]

AnalyzeInit ==
    /\ triggered = FALSE
    /\ imgFiles = <<>>
    /\ results = <<>>
    /\ clicks = 0
    /\ saves = 0
    /\ expected = 0
    /\ faults = 0

\* 'Run AI Analysis' is clicked with the images imgs uploaded
ClickAnalyze(imgs) ==
    /\ ~triggered
    /\ clicks < MaxClicks
    /\ imgFiles' = imgs
    /\ triggered' = TRUE
    /\ results' = <<>>
    /\ clicks' = clicks + 1
    /\ saves' = 0
    /\ expected' = expected + Len(Readable(imgs))
    /\ UNCHANGED <<faults, storeVars, raceVars, scoreVars, submitVars, besidesAnalyze>>

\* 'Clear Results' is clicked
ClearResults ==
    /\ triggered \/ results # <<>>
    /\ triggered' = FALSE
    /\ results' = <<>>
    /\ expected' = IF triggered /\ saves = 0 THEN expected - Len(Readable(imgFiles))
                   ELSE expected
    /\ UNCHANGED <<imgFiles, clicks, saves, faults, storeVars, raceVars, scoreVars, submitVars, besidesAnalyze>>

\* a run analyses the images, writes the cases and the hotspots and resets
\* analyze_triggered
AnalysisSaves(preds) ==
    /\ CanAnalyze
    /\ results' = preds
    /\ LET saved == write(files, CasesKey, CasesWith(files, preds)) IN
       files' = write(saved, HotspotKey, HotspotsWith(files, preds))
    /\ written' = written \cup {CasesKey, HotspotKey}
    /\ triggered' = FALSE
    /\ saves' = saves + 1
    /\ UNCHANGED <<imgFiles, clicks, expected, faults, dirExists, last,
                   raceVars, scoreVars, submitVars, besidesAnalyze>>

\* a run analyses the images and writes the cases; storage.write("hotspots")
\* raises at its open, and the run ends before analyze_triggered is reset
AnalysisHotspotsFail(preds) ==
    /\ CanAnalyze
    /\ faults < MaxFaults
    /\ results' = preds
    /\ files' = write(files, CasesKey, CasesWith(files, preds))
    /\ written' = written \cup {CasesKey}
    /\ saves' = saves + 1
    /\ faults' = faults + 1
    /\ UNCHANGED <<triggered, imgFiles, clicks, expected, dirExists, last,
                   raceVars, scoreVars, submitVars, besidesAnalyze>>

\* a run analyses the images; storage.write("cases") raises after its open,
\* before any output reaches the file
AnalysisCasesFail(preds) ==
    /\ CanAnalyze
    /\ faults < MaxFaults
    /\ results' = preds
    /\ LET f == open_w(files, CasesKey) IN files' = file_write(f.fs, CasesKey, f.pos, <<>>)
    /\ written' = written \cup {CasesKey}
    /\ faults' = faults + 1
    /\ UNCHANGED <<triggered, imgFiles, clicks, saves, expected, dirExists, last,
                   raceVars, scoreVars, submitVars, besidesAnalyze>>

AnalyzeStart == StoreIdle /\ RaceIdle /\ ScoreIdle /\ SubmitIdle /\ AnalyzeInit /\ RouterIdle /\ AuthIdle /\ FeedIdle /\ SosIdle

AnalyzeNext ==
    \/ \E imgs \in ImageSets : ClickAnalyze(imgs)
    \/ ClearResults
    \/ \E preds \in RunResults : AnalysisSaves(preds)
    \/ \E preds \in RunResults : AnalysisHotspotsFail(preds)
    \/ \E preds \in RunResults : AnalysisCasesFail(preds)

AnalyzeSpec == AnalyzeStart /\ [][AnalyzeNext]_vars

(***************************************************************************)
(* RouterSpec: one browser session running main.router again and again:    *)
(* login, navigation by the sidebar, the mobile menu and the buttons of    *)
(* the pages, role gating, and the offline banner with its sync.           *)
(***************************************************************************)
\* operations waiting in pending_sync.json
MaxQueued == 2
\* calls of sync_offline_changes that are counted
MaxSyncs == 2

Roles == {"admin", "vet", "volunteer", "user"}

\* main.PAGE_REGISTRY
PAGE_REGISTRY ==
    {"Dashboard", "AI Disease Detection", "Hotspot Mapping", "Vaccination Tracker",
     "Emergency SOS", "Feeding Schedule", "Donations", "Impact Analytics", "Admin Panel",
     "Community Feed", "Messages", "Profile", "Adoption Portal", "Awareness Hub", "Contacts",
     "Volunteer Desk", "Vet Desk", "Case Management"}

public_pages ==
    {"Dashboard", "AI Disease Detection", "Hotspot Mapping", "Emergency SOS", "Awareness Hub",
     "Community Feed", "Adoption Portal", "Donations", "Contacts", "Messages", "Profile"}

admin_pages == {"Admin Panel", "Impact Analytics"}

vet_pages == {"Vet Desk", "Case Management"}

volunteer_pages == {"Volunteer Desk", "Feeding Schedule"}

admin_vet_volunteer_pages == {"Vaccination Tracker"}

\* every logged-in user may open every page: can_access_feature without its role tests
AnyLoggedIn(u, feature_name) == u.present

can_access_feature(u, feature_name) ==
    IF ~u.present THEN FALSE
    ELSE IF feature_name \in public_pages THEN TRUE
    ELSE IF feature_name \in admin_pages THEN u.role = "admin"
    ELSE IF feature_name \in vet_pages THEN u.role \in {"vet", "admin"}
    ELSE IF feature_name \in volunteer_pages THEN u.role \in {"volunteer", "admin"}
    ELSE IF feature_name \in admin_vet_volunteer_pages
         THEN u.role \in {"admin", "vet", "volunteer"}
    ELSE TRUE

has_role(u, roles) == u.present /\ u.role \in roles

\* the buttons enhanced_sidebar shows to the user
SidebarPages(u) ==
    public_pages
    \cup (IF has_role(u, {"admin"})
          THEN {"Case Management", "Vaccination Tracker", "Feeding Schedule",
                "Impact Analytics", "Admin Panel"} ELSE {})
    \cup (IF has_role(u, {"vet"})
          THEN {"Case Management", "Vet Desk", "Vaccination Tracker"} ELSE {})
    \cup (IF has_role(u, {"volunteer"})
          THEN {"Volunteer Desk", "Feeding Schedule", "Vaccination Tracker"} ELSE {})

\* the buttons mobile_nav_menu shows to the user
menu_items(u) ==
    IF u.role = "admin"
    THEN {"Dashboard", "Hotspot Mapping", "Emergency SOS", "Impact Analytics", "Admin Panel"}
    ELSE IF u.role = "volunteer"
    THEN {"Dashboard", "Volunteer Desk", "Hotspot Mapping", "Emergency SOS", "Messages"}
    ELSE IF u.role = "vet"
    THEN {"Dashboard", "Vet Desk", "Case Management", "Vaccination Tracker", "Messages"}
    ELSE {"Dashboard", "AI Disease Detection", "Hotspot Mapping", "Adoption Portal",
          "Community Feed"}

\* the buttons of a rendered page that set session_state.nav
PageLinks(page) ==
    IF page = "Dashboard"
    THEN {"AI Disease Detection", "Emergency SOS", "Vaccination Tracker", "Donations"}
    ELSE IF page = "Volunteer Desk"
    THEN {"Emergency SOS", "Vaccination Tracker", "Feeding Schedule", "Messages"}
    ELSE IF page = "Messages" THEN {"Contacts"}
    ELSE IF page = "Contacts" THEN {"Messages"}
    ELSE {}

\* offline_mode_banner: the network is asked once per session
offline_mode_banner == IF offline_checked THEN is_offline ELSE ~online

\* sync_offline_changes: the queue file after the call
sync_offline_changes(file) ==
    IF ~file.exists THEN file
    ELSE IF online THEN NoFile
    ELSE file

\* add_to_sync_queue: the queue file after the call
add_to_sync_queue(file, operation) ==
    [exists |-> TRUE,
     operations |-> (IF file.exists THEN file.operations ELSE <<>>) \o <<operation>>]

\* router, lines 232-243: the banner and the sync of a logged-in run
BannerAndSync ==
    /\ offline_checked' = TRUE
    /\ is_offline' = offline_mode_banner
    /\ IF ~offline_mode_banner /\ was_offline
       THEN IF ~sync_attempted
            THEN /\ pending' = sync_offline_changes(pending)
                 /\ syncCalls' = IF syncCalls < MaxSyncs THEN syncCalls + 1 ELSE syncCalls
                 /\ sync_attempted' = TRUE
                 /\ was_offline' = FALSE
            ELSE UNCHANGED <<pending, syncCalls, sync_attempted, was_offline>>
       ELSE IF offline_mode_banner
            THEN /\ was_offline' = TRUE
                 /\ sync_attempted' = FALSE
                 /\ UNCHANGED <<pending, syncCalls>>
            ELSE UNCHANGED <<pending, syncCalls, sync_attempted, was_offline>>

\* init_session_state on a fresh session_state
NewSession(mobile) ==
    /\ user' = NoUser
    /\ nav' = "Dashboard"
    /\ rendered' = "nothing"
    /\ is_mobile_device' = mobile
    /\ offline_checked' = FALSE
    /\ is_offline' = FALSE
    /\ was_offline' = FALSE
    /\ sync_attempted' = FALSE

RouterInit ==
    /\ user = NoUser
    /\ nav = "Dashboard"
    /\ rendered = "nothing"
    /\ is_mobile_device \in BOOLEAN
    /\ online \in BOOLEAN
    /\ offline_checked = FALSE
    /\ is_offline = FALSE
    /\ was_offline = FALSE
    /\ sync_attempted = FALSE
    /\ pending = NoFile
    /\ syncCalls = 0

\* the browser reloads the page: a new session over the same files
Reload(mobile) ==
    /\ NewSession(mobile)
    /\ UNCHANGED <<online, pending, syncCalls, besidesRouter>>

\* the network comes or goes
ConnectivityChanges ==
    /\ online' = ~online
    /\ UNCHANGED <<user, nav, rendered, is_mobile_device, offline_checked, is_offline,
                   was_offline, sync_attempted, pending, syncCalls, besidesRouter>>

\* login_view: Login of a registered user, or Demo Login (admin)
Login(role) ==
    /\ ~user.present
    /\ user' = [present |-> TRUE, role |-> role]
    /\ rendered' = "nothing"
    /\ UNCHANGED <<nav, is_mobile_device, online, offline_checked, is_offline, was_offline,
                   sync_attempted, pending, syncCalls, besidesRouter>>

\* enhanced_sidebar: the Logout button
Logout ==
    /\ user.present
    /\ ~is_mobile_device
    /\ BannerAndSync
    /\ user' = NoUser
    /\ nav' = "Dashboard"
    /\ rendered' = "nothing"
    /\ UNCHANGED <<is_mobile_device, online, besidesRouter>>

\* the page the rest of router shows for the session's nav
Shown(u, page) == IF can_access_feature(u, page) THEN page ELSE "Access Denied"

\* enhanced_sidebar: a navigation button; a refused one leaves nav and the run goes on
SidebarButton(page_name) ==
    /\ user.present
    /\ ~is_mobile_device
    /\ page_name \in SidebarPages(user)
    /\ BannerAndSync
    /\ IF can_access_feature(user, page_name)
       THEN nav' = page_name /\ rendered' = "nothing"
       ELSE nav' = nav /\ rendered' = Shown(user, nav)
    /\ UNCHANGED <<user, is_mobile_device, online, besidesRouter>>

\* mobile_nav_menu: a button of the bottom bar
MobileButton(page) ==
    /\ user.present
    /\ is_mobile_device
    /\ page \in menu_items(user)
    /\ BannerAndSync
    /\ nav' = page
    /\ rendered' = "nothing"
    /\ UNCHANGED <<user, is_mobile_device, online, besidesRouter>>

\* a button of the rendered page that sets nav and reruns
PageButton(page) ==
    /\ user.present
    /\ can_access_feature(user, nav)
    /\ page \in PageLinks(nav)
    /\ BannerAndSync
    /\ nav' = page
    /\ rendered' = "nothing"
    /\ UNCHANGED <<user, is_mobile_device, online, besidesRouter>>

\* router: one whole run without a click (a rerun or the auto-refresh)
Router ==
    /\ IF ~user.present
       THEN /\ rendered' = "login_view"
            /\ UNCHANGED <<offline_checked, is_offline, was_offline, sync_attempted,
                           pending, syncCalls>>
       ELSE /\ BannerAndSync
            /\ rendered' = Shown(user, nav)
    /\ UNCHANGED <<user, nav, is_mobile_device, online, besidesRouter>>

\* some page handler queues an operation for the sync
AddToSyncQueue(operation) ==
    /\ (IF pending.exists THEN Len(pending.operations) ELSE 0) < MaxQueued
    /\ pending' = add_to_sync_queue(pending, operation)
    /\ UNCHANGED <<user, nav, rendered, is_mobile_device, online, offline_checked, is_offline,
                   was_offline, sync_attempted, syncCalls, besidesRouter>>

RouterStart == StoreIdle /\ RaceIdle /\ ScoreIdle /\ SubmitIdle /\ AnalyzeIdle /\ RouterInit /\ AuthIdle /\ FeedIdle /\ SosIdle

RouterNext ==
    \/ \E mobile \in BOOLEAN : Reload(mobile)
    \/ ConnectivityChanges
    \/ \E role \in Roles : Login(role)
    \/ Logout
    \/ \E page_name \in PAGE_REGISTRY : SidebarButton(page_name)
    \/ \E page \in PAGE_REGISTRY : MobileButton(page)
    \/ \E page \in PAGE_REGISTRY : PageButton(page)
    \/ Router
    \/ AddToSyncQueue("report")

RouterSpec == RouterStart /\ [][RouterNext]_vars

\* the auto-refresh of the top bar runs the router again every ten seconds
FairRouterSpec == RouterSpec /\ WF_vars(Router)

(***************************************************************************)
(* AuthSpec: utils/auth.py over the users collection, one call at a time.  *)
(* Of a user record the model keeps the email, the password and the role.  *)
(***************************************************************************)
UsersKey == "users"

AdminEmail == "admin@rescuepaws.ai"

Emails == {AdminEmail, "ann@example.org"}

Passwords == {"admin123", "secret"}

UserRecord(email, password, role) ==
    JDict([email |-> JStr(email), password |-> JStr(password), role |-> JStr(role)])

\* the record ensure_admin_exists appends
DefaultAdmin == UserRecord(AdminEmail, "admin123", "admin")

\* u.get(key)
Field(u, key) == Get(u.fields, key, JNull)

\* the test of register left out: every email counts as new
NeverRegistered(users, email) == FALSE

\* any(u.get("email") == email for u in users)
HasEmail(users, email) ==
    \E i \in 1..Len(users.items) : Field(users.items[i], "email") = JStr(email)

\* storage.read("users", [])
ReadUsers(fs) == read(fs, UsersKey, EmptyList).value

\* ensure_admin_exists(): the files after the call
ensure_admin_exists(fs) ==
    LET users == ReadUsers(fs) IN
    IF ~HasEmail(users, AdminEmail)
    THEN write(fs, UsersKey, AppendRecord(users, DefaultAdmin))
    ELSE fs

\* the first user of the list with this email and password, from position i on
RECURSIVE FirstMatch(_, _, _, _)
FirstMatch(users, email, password, i) ==
    IF i > Len(users.items) THEN JNull
    ELSE IF /\ Field(users.items[i], "email") = JStr(email)
            /\ Field(users.items[i], "password") = JStr(password)
         THEN users.items[i]
         ELSE FirstMatch(users, email, password, i + 1)

\* login(email, password): the files after the call and what it returns
login(fs, email, password) ==
    LET after == ensure_admin_exists(fs)
        found == FirstMatch(ReadUsers(after), email, password, 1)
    IN  IF found # JNull
        THEN [fs |-> after, ok |-> TRUE, msg |-> "Login successful", user |-> found]
        ELSE [fs |-> after, ok |-> FALSE, msg |-> "Invalid credentials", user |-> JNull]

\* register(email, name, password, role): the files after the call and what it returns
register(fs, email, password, role) ==
    LET users == ReadUsers(fs) IN
    IF HasEmail(users, email)
    THEN [fs |-> fs, ok |-> FALSE, msg |-> "Email already registered", user |-> JNull]
    ELSE [fs |-> write(fs, UsersKey, AppendRecord(users, UserRecord(email, password, role))),
          ok |-> TRUE, msg |-> "Account created successfully", user |-> JNull]

\* what a call left in `returned`; `damaged` tells that the file the call read
\* did not hold a list, `before` is what the call read
Returned(op, email, r, fs, key) ==
    [op |-> op, email |-> email, ok |-> r.ok, msg |-> r.msg, user |-> r.user,
     before |-> read(fs, key, EmptyList).value,
     damaged |-> key \in DOMAIN fs /\ ReadTryNoGuard(fs, key, EmptyList) # read(fs, key, EmptyList)]

AuthInit == returned = NoReturn

EnsureAdminExists ==
    /\ files' = ensure_admin_exists(files)
    /\ written' = IF files' # files THEN written \cup {UsersKey} ELSE written
    /\ returned' = Returned("ensure_admin_exists", AdminEmail,
                            [ok |-> TRUE, msg |-> "", user |-> JNull], files, UsersKey)
    /\ UNCHANGED <<dirExists, last, besidesAuth>>

LoginCall(email, password) ==
    LET r == login(files, email, password) IN
    /\ files' = r.fs
    /\ written' = IF files' # files THEN written \cup {UsersKey} ELSE written
    /\ returned' = Returned("login", email, r, files, UsersKey)
    /\ UNCHANGED <<dirExists, last, besidesAuth>>

RegisterCall(email, password, role) ==
    LET r == register(files, email, password, role) IN
    /\ files' = r.fs
    /\ written' = IF files' # files THEN written \cup {UsersKey} ELSE written
    /\ returned' = Returned("register", email, r, files, UsersKey)
    /\ UNCHANGED <<dirExists, last, besidesAuth>>

AuthStart == StoreIdle /\ RaceIdle /\ ScoreIdle /\ SubmitIdle /\ AnalyzeIdle /\ RouterIdle /\ AuthInit /\ FeedIdle /\ SosIdle

AuthNext ==
    \/ EnsureAdminExists
    \/ \E email \in Emails, password \in Passwords : LoginCall(email, password)
    \/ \E email \in Emails, password \in Passwords, role \in {"user", "vet"} :
          RegisterCall(email, password, role)

AuthSpec == AuthStart /\ [][AuthNext]_vars

(***************************************************************************)
(* DamageSpec: the read-append-write cycles of ensure_admin_exists,        *)
(* create_notification and audit_log, one at a time, over files that an    *)
(* interrupted write or a foreign program may have damaged in between.     *)
(***************************************************************************)
\* records a cycle appends to the notifications or to the audit log
MaxKept == 2

AuditKey == "audit"

CycleKeys == {UsersKey, NotifKey, AuditKey}

AuditRecord(event) == JDict([event |-> JStr(event)])

\* the file of the key exists and json.load fails on it or gives no list
Damaged(fs, key) ==
    /\ key \in DOMAIN fs
    /\ LET r == json_load(fs[key]) IN ~r.ok \/ r.val.type # "list"

\* what a damaged file may hold in place of `text`: nothing, the text cut
\* short, or a document that is a dict
DamagedTexts(text) ==
    {<<>>}
    \cup (IF text = <<>> THEN {} ELSE {SubSeq(text, 1, Len(text) - 1)})
    \cup {json_dumps(AuditRecord("legacy"))}

\* what a cycle left in `returned`: the file it found and the record it added
Cycle(op, key, fs, added) ==
    [op |-> op, key |-> key, damaged |-> Damaged(fs, key),
     text |-> IF key \in DOMAIN fs THEN fs[key] ELSE <<>>,
     raised |-> read(fs, key, EmptyList).raised, added |-> added]

\* ensure_admin_exists()
AdminCycle ==
    /\ files' = ensure_admin_exists(files)
    /\ written' = IF files' # files THEN written \cup {UsersKey} ELSE written
    /\ returned' = Cycle("ensure_admin_exists", UsersKey, files, DefaultAdmin)
    /\ UNCHANGED <<dirExists, last, besidesAuth>>

\* register(email, ...) of one more user
RegisterCycle(email) ==
    /\ files' = register(files, email, "secret", "user").fs
    /\ written' = IF files' # files THEN written \cup {UsersKey} ELSE written
    /\ returned' = Cycle("register", UsersKey, files, UserRecord(email, "secret", "user"))
    /\ UNCHANGED <<dirExists, last, besidesAuth>>

\* create_notification(notif_type, message)
CreateNotification ==
    LET record == NotifRecord(0, Len(ReadList(files, NotifKey).items) + 1) IN
    /\ Len(ReadList(files, NotifKey).items) < MaxKept
    /\ files' = AppendTo(files, NotifKey, record)
    /\ written' = written \cup {NotifKey}
    /\ returned' = Cycle("create_notification", NotifKey, files, record)
    /\ UNCHANGED <<dirExists, last, besidesAuth>>

\* audit_log(event)
AuditLog(event) ==
    /\ Len(ReadList(files, AuditKey).items) < MaxKept
    /\ files' = AppendTo(files, AuditKey, AuditRecord(event))
    /\ written' = written \cup {AuditKey}
    /\ returned' = Cycle("audit_log", AuditKey, files, AuditRecord(event))
    /\ UNCHANGED <<dirExists, last, besidesAuth>>

\* the file of a key is damaged outside the calls modelled here
Damage(key, text) ==
    /\ key \in DOMAIN files
    /\ ~Damaged(files, key)
    /\ files' = (key :> text) @@ files
    /\ returned' = NoReturn
    /\ UNCHANGED <<dirExists, written, last, besidesAuth>>

DamageNext ==
    \/ AdminCycle
    \/ RegisterCycle("ann@example.org")
    \/ CreateNotification
    \/ AuditLog("LOGIN")
    \/ \E key \in CycleKeys :
          \E text \in DamagedTexts(IF key \in DOMAIN files THEN files[key] ELSE <<>>) :
             Damage(key, text)

DamageSpec == AuthStart /\ [][DamageNext]_vars

(***************************************************************************)
(* FeedSpec: several sessions on the Feeding Schedule page.  A session     *)
(* keeps the slot it opened in session_state.selected_slot; 'Book This     *)
(* Slot' and 'Cancel My Booking' change that snapshot, read the feeding    *)
(* collection, copy the snapshot's bookings into the first slot of the     *)
(* same date, time and location, and write the collection.  The sessions   *)
(* are threads: they interleave between the read and the write.            *)
(***************************************************************************)
\* slots created through the add-slot form
MaxSlots == 1
\* the largest 'Total Volunteer Slots' entered (the form allows 1..20)
MaxCapacity == 2

\* the sessions on the page
Sessions == {1, 2}

FeedingKey == "feeding"

Volunteers == {"ann@example.org", "bob@example.org"}

\* date, time_label and location of a slot, as one value; two slots created
\* with the same three are told apart by their position only
Locations == {"Park"}

NoSlot == JNull

\* new_slot of the add-slot form
NewSlot(location, total_slots) ==
    JDict([location |-> JStr(location), slots |-> JInt(total_slots), booked |-> JInt(0),
           bookings |-> EmptyList])

\* slot.get('booked', 0), slot.get('slots', 1), slot.get("bookings", [])
BookedOf(slot) == Get(slot.fields, "booked", JInt(0)).n
TotalOf(slot) == Get(slot.fields, "slots", JInt(1)).n
BookingsOf(slot) == Get(slot.fields, "bookings", EmptyList).items

\* user_email in bookings
AlreadyBooked(slot, user_email) ==
    \E i \in 1..Len(BookingsOf(slot)) : BookingsOf(slot)[i] = JStr(user_email)

\* the booking offered whatever the numbers say
CanBookAlways(slot, user_email) == ~AlreadyBooked(slot, user_email)

\* `elif booked < total`: 'Book This Slot' is offered
CanBook(slot, user_email) ==
    ~AlreadyBooked(slot, user_email) /\ BookedOf(slot) < TotalOf(slot)

\* list.remove(x): the list without the first x
RECURSIVE Remove(_, _)
Remove(list, x) ==
    IF list = <<>> THEN <<>>
    ELSE IF Head(list) = x THEN Tail(list)
    ELSE <<Head(list)>> \o Remove(Tail(list), x)

\* bookings.append(user_email); slot["booked"] += 1
Booked(slot, user_email) ==
    JDict([slot.fields EXCEPT !["bookings"] = JList(Append(@.items, JStr(user_email))),
                              !["booked"] = JInt(@.n + 1)])

\* bookings.remove(user_email); slot["booked"] -= 1
Cancelled(slot, user_email) ==
    JDict([slot.fields EXCEPT !["bookings"] = JList(Remove(@.items, JStr(user_email))),
                              !["booked"] = JInt(@.n - 1)])

\* s and slot have the same date, time_label and location
SameSlot(s, slot) == Get(s.fields, "location", JNull) = Get(slot.fields, "location", JNull)

\* the loop over data: the first slot that matches takes the snapshot's
\* bookings and booked, then break
RECURSIVE UpdateFirst(_, _)
UpdateFirst(items, slot) ==
    IF items = <<>> THEN <<>>
    ELSE IF SameSlot(Head(items), slot)
         THEN <<JDict([Head(items).fields EXCEPT !["bookings"] = slot.fields["bookings"],
                                                  !["booked"] = slot.fields["booked"]])>>
              \o Tail(items)
         ELSE <<Head(items)>> \o UpdateFirst(Tail(items), slot)

\* the slots stored
StoredSlots(fs) == ReadList(fs, FeedingKey).items

FeedInit ==
    /\ emailOf \in [Sessions -> Volunteers]
    /\ selected_slot = [s \in Sessions |-> NoSlot]
    /\ show_slot_modal = [s \in Sessions |-> FALSE]
    /\ feedData = [s \in Sessions |-> JNull]

\* render_add_slot_modal: Create Slot
CreateSlot(s, location, total_slots) ==
    /\ feedData[s] = JNull
    /\ Len(StoredSlots(files)) < MaxSlots
    /\ files' = AppendTo(files, FeedingKey, NewSlot(location, total_slots))
    /\ written' = written \cup {FeedingKey}
    /\ UNCHANGED <<dirExists, last, feedVars, besidesFeed>>

\* render_calendar_grid: the button of slot i keeps it in the session
ViewSlot(s, i) ==
    /\ feedData[s] = JNull
    /\ i \in 1..Len(StoredSlots(files))
    /\ selected_slot' = [selected_slot EXCEPT ![s] = StoredSlots(files)[i]]
    /\ show_slot_modal' = [show_slot_modal EXCEPT ![s] = TRUE]
    /\ UNCHANGED <<emailOf, feedData, storeVars, besidesFeed>>

\* render_slot_detail_modal: Back to Calendar
BackToCalendar(s) ==
    /\ feedData[s] = JNull
    /\ show_slot_modal[s]
    /\ show_slot_modal' = [show_slot_modal EXCEPT ![s] = FALSE]
    /\ UNCHANGED <<emailOf, selected_slot, feedData, storeVars, besidesFeed>>

\* Book This Slot, up to data = storage.read("feeding", [])
BookThisSlot(s) ==
    /\ feedData[s] = JNull
    /\ show_slot_modal[s]
    /\ selected_slot[s] # NoSlot
    /\ CanBook(selected_slot[s], emailOf[s])
    /\ selected_slot' = [selected_slot EXCEPT ![s] = Booked(@, emailOf[s])]
    /\ feedData' = [feedData EXCEPT ![s] = ReadList(files, FeedingKey)]
    /\ UNCHANGED <<emailOf, show_slot_modal, storeVars, besidesFeed>>

\* Cancel My Booking, up to data = storage.read("feeding", [])
CancelMyBooking(s) ==
    /\ feedData[s] = JNull
    /\ show_slot_modal[s]
    /\ selected_slot[s] # NoSlot
    /\ AlreadyBooked(selected_slot[s], emailOf[s])
    /\ selected_slot' = [selected_slot EXCEPT ![s] = Cancelled(@, emailOf[s])]
    /\ feedData' = [feedData EXCEPT ![s] = ReadList(files, FeedingKey)]
    /\ UNCHANGED <<emailOf, show_slot_modal, storeVars, besidesFeed>>

\* the rest of either handler: the loop, storage.write("feeding", data), the
\* modal closed
UpdateAndWrite(s) ==
    /\ feedData[s] # JNull
    /\ files' = write(files, FeedingKey, JList(UpdateFirst(feedData[s].items, selected_slot[s])))
    /\ written' = written \cup {FeedingKey}
    /\ feedData' = [feedData EXCEPT ![s] = JNull]
    /\ show_slot_modal' = [show_slot_modal EXCEPT ![s] = FALSE]
    /\ UNCHANGED <<dirExists, last, emailOf, selected_slot, besidesFeed>>

FeedStart == StoreIdle /\ RaceIdle /\ ScoreIdle /\ SubmitIdle /\ AnalyzeIdle /\ RouterIdle /\ AuthIdle /\ FeedInit /\ SosIdle

FeedNext ==
    \/ \E s \in Sessions, location \in Locations, total_slots \in 1..MaxCapacity :
          CreateSlot(s, location, total_slots)
    \/ \E s \in Sessions, i \in 1..MaxSlots : ViewSlot(s, i)
    \/ \E s \in Sessions : BackToCalendar(s)
    \/ \E s \in Sessions : BookThisSlot(s)
    \/ \E s \in Sessions : CancelMyBooking(s)
    \/ \E s \in Sessions : UpdateAndWrite(s)

FeedSpec == FeedStart /\ [][FeedNext]_vars

(***************************************************************************)
(* SosSpec: several responders on the pages that list the SOS alerts       *)
(* (Emergency SOS, Vet Desk, Volunteer Desk).  Each run of a page reads    *)
(* the sos collection, shows the buttons that fit the status it read, and  *)
(* the handler of a clicked button changes the record in the list it read  *)
(* and writes the whole list.  The runs of different sessions are threads  *)
(* that interleave between the read and the write.                         *)
(***************************************************************************)
SosKey == "sos"

\* user_name of each session
NameOf == <<"ann", "bob">>

ResponderRoles == {"admin", "vet", "volunteer"}

\* the SOS as the report form stored it
ActiveSos == JDict([id |-> JStr("SOS-1"), status |-> JStr("active")])

\* s.get("status"), s.get("assigned")
StatusOf(sos) == Get(sos.fields, "status", JStr("active")).s
AssignedOf(sos) == Get(sos.fields, "assigned", JNull)

\* s["assigned"] = name; s["status"] = "dispatched"
Dispatched(sos, name) ==
    JDict(("assigned" :> JStr(name)) @@ ("status" :> JStr("dispatched")) @@ sos.fields)

\* s["status"] = "resolved"; s["resolved_by"] = name
Resolved(sos, name) ==
    JDict(("status" :> JStr("resolved")) @@ ("resolved_by" :> JStr(name)) @@ sos.fields)

\* the Accept buttons: the status read is active
CanAccept(r, sos) == StatusOf(sos) = "active"

\* the selectbox and the confirm button of Emergency SOS
CanAssign(r, sos) == roleOf[r] \in {"admin", "vet"} /\ StatusOf(sos) = "active"

\* the Resolve buttons
CanResolve(r, sos) ==
    /\ StatusOf(sos) = "dispatched"
    /\ roleOf[r] = "admin" \/ AssignedOf(sos) = JStr(NameOf[r])

\* the SOS stored
StoredSos(fs) == ReadList(fs, SosKey).items[1]

SosInit ==
    /\ roleOf \in [Sessions -> ResponderRoles]
    /\ sosRun = [r \in Sessions |-> JNull]
    /\ assignedLog = <<>>

\* a run of a page starts: sos = storage.read("sos", [])
RunStarts(r) ==
    /\ sosRun[r] = JNull
    /\ sosRun' = [sosRun EXCEPT ![r] = ReadList(files, SosKey)]
    /\ UNCHANGED <<roleOf, assignedLog, storeVars, besidesSos>>

\* the run ends without a handler
RunEnds(r) ==
    /\ sosRun[r] # JNull
    /\ sosRun' = [sosRun EXCEPT ![r] = JNull]
    /\ UNCHANGED <<roleOf, assignedLog, storeVars, besidesSos>>

\* the handler's end: the list the run read, with the changed record, is written
WriteBack(r, sos) ==
    /\ files' = write(files, SosKey, JList(<<sos>>))
    /\ written' = written \cup {SosKey}
    /\ sosRun' = [sosRun EXCEPT ![r] = JNull]
    /\ UNCHANGED <<dirExists, last, roleOf, besidesSos>>

\* ACCEPT EMERGENCY, Accept, Accept & Dispatch, Accept SOS
Accept(r) ==
    /\ sosRun[r] # JNull
    /\ CanAccept(r, sosRun[r].items[1])
    /\ WriteBack(r, Dispatched(sosRun[r].items[1], NameOf[r]))
    /\ assignedLog' = Append(assignedLog, NameOf[r])

\* Emergency SOS: an admin or a vet assigns the SOS to a responder
Assign(r, assignee) ==
    /\ sosRun[r] # JNull
    /\ CanAssign(r, sosRun[r].items[1])
    /\ WriteBack(r, Dispatched(sosRun[r].items[1], assignee))
    /\ assignedLog' = Append(assignedLog, assignee)

\* Resolve, Mark as Resolved, Mark Resolved
Resolve(r) ==
    /\ sosRun[r] # JNull
    /\ CanResolve(r, sosRun[r].items[1])
    /\ WriteBack(r, Resolved(sosRun[r].items[1], NameOf[r]))
    /\ UNCHANGED assignedLog

SosStart ==
    /\ dirExists = TRUE
    /\ files = (SosKey :> json_dumps(JList(<<ActiveSos>>)))
    /\ written = {SosKey}
    /\ last = NoCall
    /\ RaceIdle /\ ScoreIdle /\ SubmitIdle /\ AnalyzeIdle /\ RouterIdle /\ AuthIdle /\ FeedIdle
    /\ SosInit

SosNext ==
    \/ \E r \in Sessions : RunStarts(r)
    \/ \E r \in Sessions : RunEnds(r)
    \/ \E r \in Sessions : Accept(r)
    \/ \E r \in Sessions, assignee \in {"ann", "bob"} : Assign(r, assignee)
    \/ \E r \in Sessions : Resolve(r)

SosSpec == SosStart /\ [][SosNext]_vars

(***************************************************************************)
(* Properties of the document store (Spec).                                *)
(***************************************************************************)
\* the empty container of the type of v
EmptyOf(v) == IF v.type = "list" THEN EmptyList ELSE EmptyDict

\* the step is a storage.read by the caller
IsReadStep == last'.op = "read"

\* C1: once write(k, d) has completed, whatever the file of k held before,
\* read(k, default) with a default of d's container type returns exactly d:
\* the previous content is replaced in full and nothing of it is merged in.
C1_StoreRoundTrip ==
    (last.op = "write" /\ ~last.raised) =>
        /\ read(files, last.key, EmptyOf(last.arg)) = [raised |-> FALSE, value |-> last.arg]
        /\ files[last.key] = json_dumps(last.arg)

\* a completed write of a non-empty document over an other non-empty document
C1_Witness ==
    /\ last.op = "write" /\ ~last.raised
    /\ last.replaced
    /\ last.arg \notin {EmptyList, EmptyDict}
    /\ read(files, last.key, EmptyOf(last.arg)).value = last.arg

\* C2: when the file of k parses to a list and default is {}, or to a dict
\* and default is [], read(k, default) returns default, not the stored
\* value, and leaves every file as it was.
C2_TypeGuard ==
    [][\A k \in Keys, d \in {EmptyList, EmptyDict} :
          (/\ IsReadStep /\ last'.key = k /\ last'.arg = d
           /\ FileKind(files, k) \in {"list", "dict"}
           /\ FileKind(files, k) # d.type)
          => (/\ last'.value = d
              /\ last'.value # json_load(files[k]).val
              /\ ~last'.raised
              /\ files' = files)]_vars

\* a read with default [] of a file that holds a non-empty dict has returned []
C2_Witness ==
    /\ last.op = "read" /\ last.arg = EmptyList
    /\ FileKind(files, last.key) = "dict"
    /\ json_load(files[last.key]).val # EmptyDict
    /\ last.value = EmptyList

\* C3: whatever the file of k holds (no file, an empty file, invalid or
\* partial JSON text, a value of the other type), read(k, default) returns
\* a value and does not raise; for text that is not valid JSON it returns
\* the default the caller supplied.
C3_ReadFailSoft ==
    \A k \in Keys, d \in Defaults :
        /\ ~read(files, k, d).raised
        /\ (FileKind(files, k) \in {"empty", "invalid"} /\ d # JNull)
              => read(files, k, d).value = d
        /\ (last.op = "read" => ~last.raised)

\* a read of a file that holds a part of a JSON text has returned the default
C3_Witness ==
    /\ last.op = "read" /\ last.arg = EmptyDict
    /\ FileKind(files, last.key) = "invalid"
    /\ ~last.raised
    /\ last.value = EmptyDict

\* C4: a read of a key that was never written returns the supplied default;
\* no read changes the set of files that exist; a file exists only for a key
\* that a write has opened.
C4_NoFileOnRead ==
    /\ [](DOMAIN files \subseteq written)
    /\ []((last.op = "read" /\ last.key \notin written /\ last.arg # JNull)
            => (last.value = last.arg /\ ~last.raised))
    /\ [][IsReadStep => DOMAIN files' = DOMAIN files]_vars

\* a read of a never-written key, after the other key was written
C4_Witness ==
    /\ last.op = "read" /\ last.arg = EmptyList
    /\ last.key \notin written
    /\ written # {}
    /\ last.key \notin DOMAIN files
    /\ last.value = EmptyList

(***************************************************************************)
(* The lost update (RaceSpec).                                             *)
(***************************************************************************)
\* the records of a stored list
RecordsOf(doc) == {doc.items[i] : i \in 1..Len(doc.items)}

\* both callers have finished a call; each read before either opened the
\* file for writing; the write of `later` was the last to complete
BothReadThenWrote(first, later) ==
    /\ first # later
    /\ pc[first] = "idle" /\ pc[later] = "idle"
    /\ calls[first] > 0 /\ calls[later] > 0
    /\ stamp[first].read < stamp[first].open /\ stamp[first].read < stamp[later].open
    /\ stamp[later].read < stamp[first].open /\ stamp[later].read < stamp[later].open
    /\ stamp[first].done < stamp[later].done
    /\ stamp[later].done = clock

\* the write of `first` had closed the file before `later` opened it
WritesInTurn(first, later) == stamp[first].done < stamp[later].open

\* the stored collection is the document of `later`, what it read plus its
\* own record, and the record of `first` is not in it
LaterWriterWins(first, later) ==
    LET stored == read(files, NotifKey, EmptyList).value IN
    /\ stored = AppendRecord(base[later], NotifRecord(later, calls[later]))
    /\ stored = notif[later]
    /\ NotifRecord(first, calls[first]) \notin RecordsOf(stored)

\* C5 as stated: when two callers each read, append one record and write,
\* and both reads come before either write, the stored collection is
\* afterwards exactly the later writer's document and the earlier writer's
\* record is absent.
C5_LaterWriterAlwaysWins ==
    \A first, later \in Callers :
        BothReadThenWrote(first, later) => LaterWriterWins(first, later)

\* C5, amended: the same, for two writes of which the earlier has closed
\* the file before the later opens it.
C5_LostUpdate ==
    \A first, later \in Callers :
        (BothReadThenWrote(first, later) /\ WritesInTurn(first, later))
            => LaterWriterWins(first, later)

\* the state after such a race: the record of the earlier writer, which its
\* own document holds, is not in the stored collection
C5_Witness ==
    \E first, later \in Callers :
        /\ BothReadThenWrote(first, later)
        /\ WritesInTurn(first, later)
        /\ NotifRecord(first, calls[first]) \in RecordsOf(notif[first])
        /\ NotifRecord(first, calls[first])
              \notin RecordsOf(read(files, NotifKey, EmptyList).value)

(***************************************************************************)
(* Properties of the scoring engine (ScoreSpec).                           *)
(***************************************************************************)
\* every entry of resp is an option of one of the ten questions
WellFormed(resp) ==
    /\ DOMAIN resp = QuestionSet
    /\ \A q \in QuestionSet : resp[q] \in OptionSet(q)

\* questionnaires that total 20, 21, 50, 51, 80 and 81, with the level of each
BoundaryExamples ==
    {[r |-> [DefaultResponses EXCEPT !.body_language = "Tense (stiff body, raised hackles)"],
      total |-> 20, level |-> "Low Risk"],
     [r |-> [DefaultResponses EXCEPT !.space = "Actively defends space",
                                     !.pack = "With one other dog"],
      total |-> 21, level |-> "Moderate Risk"],
     [r |-> [DefaultResponses EXCEPT !.aggression = "Aggressive/Growling",
                                     !.body_language = "Showing teeth/Snarling"],
      total |-> 50, level |-> "Moderate Risk"],
     [r |-> [DefaultResponses EXCEPT !.aggression = "Attacking/Lunging",
                                     !.space = "Actively defends space",
                                     !.pack = "With one other dog"],
      total |-> 51, level |-> "High Risk"],
     [r |-> [DefaultResponses EXCEPT !.aggression = "Attacking/Lunging",
                                     !.past_behavior = "Frequent attacks",
                                     !.approach = "Warning signs (barking/growling)"],
      total |-> 80, level |-> "High Risk"],
     [r |-> [DefaultResponses EXCEPT !.aggression = "Attacking/Lunging",
                                     !.past_behavior = "Frequent attacks",
                                     !.space = "Actively defends space",
                                     !.pack = "With one other dog"],
      total |-> 81, level |-> "Critical Risk"]}

\* C6: the level is Low iff score <= 20, Moderate iff 20 < score <= 50, High
\* iff 50 < score <= 80, Critical iff score > 80; questionnaires built from
\* the option sets total 20, 21, 50, 51, 80 and 81 and get the levels Low,
\* Moderate, Moderate, High, High and Critical.
C6_RiskBuckets ==
    /\ scored.called =>
          /\ (scored.level = "Low Risk") <=> (scored.score <= 20)
          /\ (scored.level = "Moderate Risk") <=> (20 < scored.score /\ scored.score <= 50)
          /\ (scored.level = "High Risk") <=> (50 < scored.score /\ scored.score <= 80)
          /\ (scored.level = "Critical Risk") <=> (scored.score > 80)
    /\ \A e \in BoundaryExamples :
          /\ WellFormed(e.r)
          /\ (scored.called /\ responses = e.r) =>
                (scored.score = e.total /\ scored.level = e.level)

\* the engine has scored the questionnaire that totals exactly 80
C6_Witness ==
    /\ scored.called /\ WellFormed(responses)
    /\ \E e \in BoundaryExamples : e.total = 80 /\ responses = e.r
    /\ scored.score = 80 /\ scored.level = "High Risk"

\* the sum, over the ten question keys in order, of the weight of the
\* selected option, 0 where the mapping has no entry or an unknown option
RECURSIVE ExpectedScore(_, _)
ExpectedScore(resp, i) ==
    IF i > Len(QuestionKeys) THEN 0
    ELSE LET q == QuestionKeys[i] IN
         (IF q \in DOMAIN resp /\ resp[q] \in OptionSet(q) THEN score_map[q][resp[q]] ELSE 0)
         + ExpectedScore(resp, i + 1)

\* C7: the score is the sum over the ten question keys of the weight of the
\* selected option; a missing key, an unknown key and an unknown option
\* contribute 0, and every such mapping gets a score.
C7_ScoreIsSum ==
    scored.called => scored.score = ExpectedScore(responses, 1)

\* a mapping with a missing key and an unknown option has been scored
C7_Witness ==
    /\ scored.called
    /\ \E q \in QuestionSet : q \notin DOMAIN responses
    /\ \E q \in QuestionSet : q \in DOMAIN responses /\ responses[q] = UnknownOption
    /\ scored.score > 0

\* the lowest-weighted option of each question
FriendliestResponses ==
    [q \in QuestionSet |->
        CHOOSE o \in OptionSet(q) : \A o2 \in OptionSet(q) : score_map[q][o] <= score_map[q][o2]]

Engine(score, level, list) ==
    /\ scored.called /\ recommendations.called
    /\ scored.score = score /\ scored.level = level
    /\ recommendations.list = list

\* C8 as stated: the friendliest option of each question gives score 0, level
\* Low Risk and no recommendation.
C8_MinimalScoreZero ==
    (scored.called /\ recommendations.called /\ responses = FriendliestResponses)
        => Engine(0, "Low Risk", <<>>)

\* C8, amended: the lowest-weighted option of each question gives score 3 (the
\* lowest weight of the pack question is 3), level Low Risk and no
\* recommendation; the first option of each question gives score 5, Low Risk
\* and no recommendation; no questionnaire scores less than 3.
C8_MinimalScenario ==
    (scored.called /\ recommendations.called) =>
        /\ responses = FriendliestResponses => Engine(3, "Low Risk", <<>>)
        /\ responses = DefaultResponses => Engine(5, "Low Risk", <<>>)
        /\ WellFormed(responses) => scored.score >= 3

\* the engine has run on the questionnaire of lowest-weighted options
C8_Witness ==
    /\ responses = FriendliestResponses
    /\ responses.pack = "With one other dog"
    /\ Engine(3, "Low Risk", <<>>)

\* C9: the end-to-end responses give score 193, level Critical Risk and
\* exactly the advisories of aggression, territorial, approach and food
\* guarding, none for health.
C9_EndToEnd ==
    (scored.called /\ recommendations.called /\ responses = EndToEndResponses) =>
        /\ Engine(193, "Critical Risk",
                  <<Advisory.aggression, Advisory.territorial, Advisory.approach,
                    Advisory.food_guarding>>)
        /\ Len(recommendations.list) = 4
        /\ \A i \in 1..Len(recommendations.list) : recommendations.list[i] # Advisory.health

\* the engine has run on the end-to-end responses
C9_Witness ==
    /\ responses = EndToEndResponses
    /\ scored.called /\ scored.score = 193
    /\ recommendations.called /\ Len(recommendations.list) = 4

\* the place of an advisory in the rule order, 0 for any other string
RulePlace(text) ==
    IF \E i \in 1..Len(RuleOrder) : Advisory[RuleOrder[i]] = text
    THEN CHOOSE i \in 1..Len(RuleOrder) : Advisory[RuleOrder[i]] = text
    ELSE 0

\* C10: the list returned has its entries in the rule order aggression,
\* territorial, approach, health, pack, food guarding (it is a subsequence
\* of that order), and no advisory occurs twice.
C10_RecommendationOrder ==
    recommendations.called =>
        LET list == recommendations.list IN
        /\ \A i \in 1..Len(list) : RulePlace(list[i]) > 0
        /\ \A i, j \in 1..Len(list) : i < j => RulePlace(list[i]) < RulePlace(list[j])
        /\ \A i, j \in 1..Len(list) : i # j => list[i] # list[j]

\* all six rules have fired
C10_Witness ==
    /\ recommendations.called
    /\ Len(recommendations.list) = 6
    /\ recommendations.list[1] = Advisory.aggression
    /\ recommendations.list[6] = Advisory.food_guarding

\* the questions that no rule looks at
UntriggeredQuestions == {"body_language", "eye_contact", "past_behavior", "space"}

\* the strings of a list
Members(list) == {list[i] : i \in 1..Len(list)}

\* the mapping resp without its entry under q
Without(resp, q) == [x \in DOMAIN resp \ {q} |-> resp[x]]

\* C11: the advisory of each of the six rule questions is in the result iff
\* the answer to that question is one of its dangerous options; replacing or
\* removing the answer to body_language, eye_contact, past_behavior or space
\* gives the same result; when no rule fires the result is the empty list.
C11_RecommendationTriggers ==
    recommendations.called =>
        LET list == recommendations.list IN
        /\ \A q \in DOMAIN Advisory :
              (Advisory[q] \in Members(list))
                  <=> (q \in DOMAIN responses /\ responses[q] \in Dangerous[q])
        /\ \A q \in UntriggeredQuestions :
              /\ generate_safety_recommendations(Without(responses, q)) = list
              /\ \A o \in OptionSet(q) \cup {UnknownOption} :
                    generate_safety_recommendations((q :> o) @@ Without(responses, q)) = list
        /\ (\A q \in DOMAIN Advisory : q \in DOMAIN responses => responses[q] \notin Dangerous[q])
              => list = <<>>

\* no rule has fired on a questionnaire whose four other answers are the
\* highest-weighted ones
C11_Witness ==
    /\ recommendations.called
    /\ recommendations.list = <<>>
    /\ WellFormed(responses)
    /\ responses["body_language"] = "Showing teeth/Snarling"
    /\ responses["eye_contact"] = "Fixed stare with tension"
    /\ responses["past_behavior"] = "Frequent attacks"
    /\ responses["space"] = "Actively defends space"

\* two questionnaires that weigh 20 on one question and are otherwise alike
GrowlingResponses == [DefaultResponses EXCEPT !.aggression = "Aggressive/Growling"]
PastIncidentsResponses == [DefaultResponses EXCEPT !.past_behavior = "Multiple incidents"]

\* C12: recommendations are not a function of the score or of the level: the
\* two questionnaires above, drawn from the option sets, have the same score
\* and level, and the engine returns one advisory for the first and none for
\* the second.
C12_RecommendationsNotByScore ==
    /\ WellFormed(GrowlingResponses) /\ WellFormed(PastIncidentsResponses)
    /\ (scored.called /\ recommendations.called) =>
          /\ responses = GrowlingResponses =>
                /\ scored.score = total_score(PastIncidentsResponses)
                /\ scored.level = RiskLevel(total_score(PastIncidentsResponses))
                /\ recommendations.list
                      # generate_safety_recommendations(PastIncidentsResponses)
                /\ recommendations.list = <<Advisory.aggression>>
          /\ responses = PastIncidentsResponses =>
                /\ scored.score = total_score(GrowlingResponses)
                /\ scored.level = RiskLevel(total_score(GrowlingResponses))
                /\ recommendations.list # generate_safety_recommendations(GrowlingResponses)
                /\ recommendations.list = <<>>

\* the engine has run on the first questionnaire of the pair
C12_Witness ==
    /\ responses = GrowlingResponses
    /\ scored.called /\ scored.score = 25 /\ scored.level = "Moderate Risk"
    /\ recommendations.called /\ Len(recommendations.list) = 1
    /\ generate_safety_recommendations(PastIncidentsResponses) = <<>>
    /\ total_score(PastIncidentsResponses) = 25

\* the rank of a level in the order Low < Moderate < High < Critical
Rank(level) ==
    CASE level = "Low Risk" -> 1
      [] level = "Moderate Risk" -> 2
      [] level = "High Risk" -> 3
      [] level = "Critical Risk" -> 4

\* the highest-weighted option of each question
HighestResponses ==
    [q \in QuestionSet |->
        CHOOSE o \in OptionSet(q) : \A o2 \in OptionSet(q) : score_map[q][o] >= score_map[q][o2]]

\* what the engine returns for the boundary questionnaires, for the
\* questionnaire of first options, the end-to-end one and the highest one
ReferenceResults ==
    {calculate_bite_risk_score(r) :
        r \in {e.r : e \in BoundaryExamples}
              \cup {DefaultResponses, EndToEndResponses, HighestResponses, EmptyResponses}}

\* the totals a questionnaire can reach, and the level of each
Totals == 0..total_score(HighestResponses)
LevelOf == [total \in Totals |-> RiskLevel(total)]

\* a higher total never has a lower-ranked level
LevelsAscend ==
    \A t1, t2 \in Totals : t1 <= t2 => Rank(LevelOf[t1]) <= Rank(LevelOf[t2])

\* C13: the score is >= 0 for every mapping, and the level is a monotonic
\* function of the score alone: the level returned is the one level of that
\* total, the levels of the totals ascend, and compared with the result of
\* any other response set a score that is not lower never has a lower-ranked
\* level.
C13_LevelMonotonic ==
    /\ LevelsAscend
    /\ scored.called =>
          /\ scored.score >= 0
          /\ scored.score \in Totals
          /\ scored.level = LevelOf[scored.score]
          /\ \A other \in ReferenceResults :
                /\ other.score <= scored.score => Rank(other.level) <= Rank(scored.level)
                /\ scored.score <= other.score => Rank(scored.level) <= Rank(other.level)

\* a High Risk result, between reference results of lower and of higher rank
C13_Witness ==
    /\ scored.called /\ scored.level = "High Risk"
    /\ \E lo, hi \in ReferenceResults :
          /\ lo.score < scored.score /\ Rank(lo.level) = 2
          /\ scored.score < hi.score /\ Rank(hi.level) = 4

\* the answers of resp that can be replaced by a strictly higher-weighted
\* option of the same question, with that option
Raises(resp) ==
    {<<q, o>> \in UNION {{q} \X OptionSet(q) : q \in DOMAIN resp \cap QuestionSet} :
        resp[q] \in OptionSet(q) /\ score_map[q][o] > score_map[q][resp[q]]}

\* the number of entries in which resp differs from the base profile b
Apart(resp, b) ==
    Cardinality({q \in QuestionSet \cup {UnknownKey} :
                    Get(resp, q, Missing) # Get(b, q, Missing)})

\* C14: for every response set r1 that differs from a base profile in at
\* most MaxApart entries and every r2 that is r1 with one answer replaced by
\* an option of strictly higher weight for the same question,
\* score(r2) >= score(r1).
C14_ScoreMonotonic ==
    (/\ scored.called /\ ~recommendations.called
     /\ \E b \in BaseProfiles : Apart(responses, b) <= MaxApart) =>
        \A c \in Raises(responses) :
            calculate_bite_risk_score((c[1] :> c[2]) @@ responses).score >= scored.score

\* a scored questionnaire with an answer that can be raised: replacing the
\* pack answer "With one other dog" (3) by "Alone" (5) raises the score by 2
C14_Witness ==
    /\ scored.called /\ WellFormed(responses)
    /\ responses["pack"] = "With one other dog"
    /\ responses["aggression"] = "Neutral/Cautious"
    /\ Apart(responses, DefaultResponses) = 2
    /\ <<"pack", "Alone">> \in Raises(responses)
    /\ calculate_bite_risk_score([responses EXCEPT !["pack"] = "Alone"]).score
          = scored.score + 2

(***************************************************************************)
(* Further properties of the document store.                               *)
(***************************************************************************)
\* the step is a storage.write of `key` by the caller
IsWriteStep(key) == last'.op = "write" /\ last'.key = key

\* C15 as stated: write(k, d) creates the storage directory if it is absent
\* and the file if it is absent: whether or not the directory and the file
\* exist when it is called, the write succeeds, both exist afterwards and the
\* next read returns d.
C15_WriteCreatesDirectory ==
    [][\A k \in Keys :
          (IsWriteStep(k) /\ last'.failure # "output") =>
              /\ ~last'.raised
              /\ dirExists'
              /\ k \in DOMAIN files'
              /\ read(files', k, EmptyOf(last'.arg)).value = last'.arg]_vars

\* write(k, d) creates the file if it is absent, in a directory that exists
C15_WriteCreatesFile ==
    [][\A k \in Keys :
          (IsWriteStep(k) /\ last'.failure # "output" /\ dirExists) =>
              /\ ~last'.raised
              /\ k \in DOMAIN files'
              /\ read(files', k, EmptyOf(last'.arg)).value = last'.arg]_vars

\* a write of a non-empty document, issued after the directory was removed,
\* has raised; there is no directory and no file, and a read returns the
\* default
C15_Witness ==
    /\ last.op = "write" /\ last.arg \notin {EmptyList, EmptyDict, JNull}
    /\ last.failure = "open" /\ last.raised
    /\ written # {}
    /\ ~dirExists
    /\ last.key \notin DOMAIN files
    /\ read(files, last.key, EmptyOf(last.arg)).value = EmptyOf(last.arg)

RECURSIVE Coerced(_)
\* v with every datetime in it replaced by its string form
Coerced(v) ==
    CASE v.type = "list" -> JList([i \in 1..Len(v.items) |-> Coerced(v.items[i])])
      [] v.type = "dict" -> JDict([f \in DOMAIN v.fields |-> Coerced(v.fields[f])])
      [] v.type = "datetime" -> JStr(DateText[v.at])
      [] OTHER -> v

RECURSIVE HasDate(_)
\* v holds a datetime
HasDate(v) ==
    CASE v.type = "list" -> \E i \in 1..Len(v.items) : HasDate(v.items[i])
      [] v.type = "dict" -> \E f \in DOMAIN v.fields : HasDate(v.fields[f])
      [] v.type = "datetime" -> TRUE
      [] OTHER -> FALSE

C17_WriteFailurePropagates ==
    [][\A k \in Keys :
          IsWriteStep(k) =>
              /\ last'.failure \in {"open", "output"} => last'.raised
              /\ ~last'.raised =>
                    /\ last'.failure = "none"
                    /\ files'[k] = json_dumps(last'.arg)
              /\ last'.failure = "open" => files' = files
              /\ \A d \in Defaults : ~read(files', k, d).raised]_vars

\* a write that stopped part-way has raised: the file holds a part of a JSON
\* text and read returns the default without raising
C17_Witness ==
    /\ last.op = "write" /\ last.failure = "output" /\ last.raised
    /\ last.replaced
    /\ FileKind(files, last.key) = "invalid"
    /\ read(files, last.key, EmptyList) = [raised |-> FALSE, value |-> EmptyList]

\* C18: each key is backed by its own file: a write of k, whether it
\* completes, stops part-way or fails, creates at most the file of k and
\* changes only that file, and for every other key k2 and both defaults []
\* and {} read(k2, default) returns after the write what it returned before.
C18_KeyIsolation ==
    [][\A k \in Keys :
          IsWriteStep(k) =>
              /\ DOMAIN files' \subseteq DOMAIN files \cup {k}
              /\ \A k2 \in Keys \ {k} :
                    /\ k2 \in DOMAIN files' <=> k2 \in DOMAIN files
                    /\ k2 \in DOMAIN files => files'[k2] = files[k2]
                    /\ \A d \in {EmptyList, EmptyDict} :
                          read(files', k2, d) = read(files, k2, d)]_vars

\* a completed write replaced the records of one key while the other key
\* holds records of its own
C18_Witness ==
    /\ last.op = "write" /\ ~last.raised /\ last.replaced
    /\ last.arg \notin {EmptyList, EmptyDict}
    /\ \E k2 \in Keys \ {last.key} :
          /\ HoldsRecords(files, k2)
          /\ json_load(files[k2]).val # last.arg
          /\ read(files, k2, EmptyOf(json_load(files[k2]).val)).value = json_load(files[k2]).val

(***************************************************************************)
(* Properties of the assessment collection (SubmitSpec).                   *)
(***************************************************************************)
\* the assessments stored
Stored(fs) == read(fs, AssessmentKey, EmptyList).value

\* C19: each submission appends exactly one record to bite_assessments: the
\* collection after it is the collection before it followed by one record;
\* no other step changes the collection; and at every moment the collection
\* holds the record of every submission so far, unchanged and in order.
C19_AssessmentsAppendOnly ==
    /\ [](Stored(files) = JList(submissions))
    /\ [][/\ submissions' # submissions =>
                /\ Len(Stored(files').items) = Len(Stored(files).items) + 1
                /\ SubSeq(Stored(files').items, 1, Len(Stored(files).items))
                      = Stored(files).items
          /\ submissions' = submissions => Stored(files') = Stored(files)]_vars

\* three submissions, the last a second after the first: all three records
\* are stored
C19_Witness ==
    /\ Len(submissions) = 3
    /\ now = 1
    /\ submissions[1] # submissions[3]
    /\ Stored(files).items = submissions
    /\ submissions[1].fields["id"] = JStr("BR-0-0a1b")

\* C20 as stated: no two records of bite_assessments have the same id.
C20_UniqueIds ==
    LET items == Stored(files).items IN
    \A i, j \in 1..Len(items) : i # j => items[i].fields["id"] # items[j].fields["id"]

\* two submissions of the same second are stored under one id
C20_Witness ==
    LET items == Stored(files).items IN
    /\ Len(items) = 2
    /\ items[1].fields["id"] = items[2].fields["id"]
    /\ items[1] # items[2]

\* records of different seconds, or of different uuid digits, have different ids
C20_UniqueAcrossSeconds ==
    \A s1, s2 \in 0..MaxSeconds, h1, h2 \in HexChoices :
        (s1 # s2 \/ h1 # h2) => AssessmentId(s1, h1) # AssessmentId(s2, h2)

(***************************************************************************)
(* The torn read (RaceSpec).                                               *)
(***************************************************************************)
\* caller q has opened the file for writing and not yet dumped, and no other
\* caller has dumped since
Truncating(q) ==
    /\ pc[q] = "opened"
    /\ \A r \in Callers \ {q} : stamp[r].done < stamp[q].open

\* C21: between the truncation and the end of a write of k the file is
\* empty: a read(k, default) that runs then returns the default, also when
\* the collection held records before the write and holds records after it,
\* and what the reader gets is what it gets from an empty collection.
C21_TornRead ==
    /\ [](\A q \in Callers :
            Truncating(q) =>
                /\ files[NotifKey] = <<>>
                /\ \A d \in {EmptyList, EmptyDict} : read(files, NotifKey, d).value = d)
    /\ [][\A p, q \in Callers :
            (p # q /\ Truncating(q) /\ pc[p] = "idle" /\ pc'[p] = "read") =>
                /\ base'[p] = EmptyList
                /\ base'[p] = read(write(files, NotifKey, EmptyList), NotifKey, EmptyList).value
                /\ files' = files]_vars

\* caller q read a non-empty collection and opened the file; caller p then
\* read the default; q has now dumped and the collection holds q's records
C21_Witness ==
    \E p, q \in Callers :
        /\ p # q
        /\ pc[q] = "idle" /\ stamp[q].done = clock
        /\ base[q] # EmptyList
        /\ stamp[q].open = stamp[q].read + 1
        /\ stamp[q].done = stamp[q].open + 1
        /\ pc[p] = "read" /\ stamp[p].read = stamp[q].open
        /\ base[p] = EmptyList
        /\ read(files, NotifKey, EmptyList).value = notif[q]
        /\ Len(notif[q].items) = 2

(***************************************************************************)
(* Properties of the analysis trigger (AnalyzeSpec).                       *)
(***************************************************************************)
\* the cases stored
StoredCases == read(files, CasesKey, EmptyList).value.items

\* the cases were written at most once for the last click, the collection
\* never holds more records than the clicks had readable images, and once
\* analyze_triggered is reset it holds exactly that many
NPerClick ==
    /\ saves <= 1
    /\ Len(StoredCases) <= expected
    /\ ~triggered => Len(StoredCases) = expected

\* C22 as stated: one click with N readable images appends exactly N case
\* records however many reruns follow, also after a run that raised before
\* finishing: the analysis never saves twice for one click.
C22_ExactlyNPerClick == NPerClick

\* the same, for the runs in which no write raises
C22_NoDuplicateWithoutFault == faults = 0 => NPerClick

\* one click with two readable images, two writes of the cases: four records
C22_Witness ==
    /\ clicks = 1 /\ ~triggered
    /\ Len(Readable(imgFiles)) = 2
    /\ saves = 2
    /\ Len(StoredCases) = 4

(***************************************************************************)
(* C23: when a logged-in session that was offline is online again, the     *)
(* router eventually invokes sync_offline_changes for that transition      *)
(* (which clears was_offline), unless the network goes again or the        *)
(* session ends first; queued operations do not stay queued forever.       *)
(***************************************************************************)
C23_SyncsAfterReconnect ==
    (user.present /\ was_offline /\ online) ~> (~online \/ ~user.present \/ ~was_offline)

\* what the model shows instead: no run of the router ever invokes the sync
C23_SyncNeverInvoked == syncCalls = 0

\* ... and a queue file, once written, is never removed
C23_QueueNeverRemoved == [][pending.exists => pending'.exists]_vars

C23_Witness ==
    /\ user.present
    /\ rendered \in PAGE_REGISTRY
    /\ was_offline
    /\ is_offline
    /\ online
    /\ pending.exists
    /\ Len(pending.operations) = 2

(***************************************************************************)
(* C24: a page is on the screen only if can_access_feature allows it to    *)
(* the session's user: the admin pages only for admin, the vet pages for   *)
(* vet or admin, the volunteer pages for volunteer or admin, Vaccination   *)
(* Tracker for admin, vet or volunteer; without a user no page is shown,   *)
(* whichever control set nav.                                              *)
(***************************************************************************)
C24_RoleGating ==
    /\ rendered \in PAGE_REGISTRY => user.present /\ rendered = nav
    /\ rendered \in {"Admin Panel", "Impact Analytics"} => user.role = "admin"
    /\ rendered \in {"Vet Desk", "Case Management"} => user.role \in {"vet", "admin"}
    /\ rendered \in {"Volunteer Desk", "Feeding Schedule"} => user.role \in {"volunteer", "admin"}
    /\ rendered = "Vaccination Tracker" => user.role \in {"admin", "vet", "volunteer"}
    /\ ~user.present => rendered \in {"nothing", "login_view"}

\* a user without a role for it was sent to Vaccination Tracker by the Dashboard button
\* and the router refused the page
C24_Witness ==
    /\ user.present
    /\ user.role = "user"
    /\ nav = "Vaccination Tracker"
    /\ rendered = "Access Denied"

(***************************************************************************)
(* Properties of utils/auth.py (AuthSpec).                                 *)
(***************************************************************************)
\* the users stored
StoredUsers == ReadUsers(files).items

\* the positions of the stored users that hold this email
WithEmail(email) == {i \in 1..Len(StoredUsers) : Field(StoredUsers[i], "email") = JStr(email)}

\* C25: after any sequence of register, login and ensure_admin_exists calls
\* run one at a time no two user records have the same email (so the
\* default admin is there at most once); a register with an email already
\* present returns (False, 'Email already registered') and leaves the users
\* collection as it was.
C25_EmailUnique ==
    /\ [](\A email \in Emails : Cardinality(WithEmail(email)) <= 1)
    /\ [][\A email \in Emails, password \in Passwords, role \in {"user", "vet"} :
              (RegisterCall(email, password, role) /\ WithEmail(email) # {})
              => /\ ~returned'.ok
                 /\ returned'.msg = "Email already registered"
                 /\ files' = files]_vars

\* a register of an email that is present was refused, with two users stored
C25_Witness ==
    /\ returned.op = "register"
    /\ ~returned.ok
    /\ returned.msg = "Email already registered"
    /\ Len(StoredUsers) = 2
    /\ returned.before.items = StoredUsers

(***************************************************************************)
(* Properties of the cycles over damaged files (DamageSpec).               *)
(***************************************************************************)
\* the step is a read-append-write cycle on the key
CycleOn(key) ==
    \/ key = UsersKey /\ AdminCycle
    \/ key = NotifKey /\ CreateNotification
    \/ key = AuditKey /\ AuditLog("LOGIN")

\* C28: when the file of a collection holds unparsable or wrong-typed
\* content, the next read-append-write cycle (ensure_admin_exists,
\* create_notification, audit_log) reads the default without an error and
\* leaves in the file the one record it appended and nothing of what the
\* file held before.
C28_CycleDestroys ==
    [][\A key \in CycleKeys :
          (Damaged(files, key) /\ CycleOn(key))
          => /\ ~read(files, key, EmptyList).raised
             /\ read(files, key, EmptyList).value = EmptyList
             /\ files'[key] = json_dumps(JList(<<returned'.added>>))
             /\ read(files', key, EmptyList).value = JList(<<returned'.added>>)]_vars

\* ensure_admin_exists found the users file cut short, with a user's
\* record in it, and left the default admin alone in the collection
C28_Witness ==
    /\ returned.op = "ensure_admin_exists"
    /\ returned.damaged
    /\ \E i \in 1..Len(returned.text) : returned.text[i] = StrTok("ann@example.org")
    /\ ~returned.raised
    /\ StoredUsers = <<DefaultAdmin>>

(***************************************************************************)
(* C29: write opens the file in truncating mode before it serialises, so   *)
(* after a write(k, d) that raised part-way (the encoder raised, or the    *)
(* output failed after the open) the file of k holds no document: the      *)
(* value stored before is gone and a read(k, default) returns the default. *)
(***************************************************************************)
C29_FailedWriteLoses ==
    [][\A k \in Keys :
          (IsWriteStep(k) /\ last'.raised /\ last'.failure \in {"output", "encode"})
          => /\ FileKind(files', k) \in {"empty", "invalid"}
             /\ \A d \in {EmptyList, EmptyDict} : read(files', k, d).value = d
             /\ HoldsRecords(files, k)
                   => \A d \in Defaults :
                         read(files', k, d).value # json_load(files[k]).val]_vars

\* a write that stopped after part of its output has raised; the key held
\* records before, the file now holds a part of a document and a read
\* returns the default
C29_Witness ==
    /\ last.op = "write" /\ last.failure = "output" /\ last.raised
    /\ last.replaced
    /\ FileKind(files, last.key) = "invalid"
    /\ read(files, last.key, EmptyList).value = EmptyList

(***************************************************************************)
(* Consistency of the stored assessments with the engine (SubmitSpec).     *)
(***************************************************************************)
\* the hotspots stored
StoredHotspots == ReadList(files, HotspotKey).items

\* the responses mapping a stored assessment holds
ResponsesOf(assessment) ==
    LET d == assessment.fields["responses"].fields IN [q \in DOMAIN d |-> d[q].s]

\* C30: every stored assessment has the risk_score the engine computes for
\* its own stored responses and the risk_level of that score's bucket; each
\* submission appended exactly one hotspot, whose risk is that score and
\* whose label is 'Bite Risk: <risk_level>'.
C30_ConsistentWithEngine ==
    LET stored == Stored(files).items IN
    /\ Len(stored) = Len(submissions)
    /\ Len(StoredHotspots) = Len(submissions)
    /\ \A i \in 1..Len(stored) :
          LET score == total_score(ResponsesOf(stored[i])) IN
          /\ stored[i].fields["risk_score"] = JInt(score)
          /\ stored[i].fields["risk_level"] = JStr(RiskLevel(score))
          /\ StoredHotspots[i].fields["risk"] = JInt(score)
          /\ StoredHotspots[i].fields["label"] = JStr("Bite Risk: " \o RiskLevel(score))

\* three submissions are stored, of both profiles, with a critical one
C30_Witness ==
    LET stored == Stored(files).items IN
    /\ Len(stored) = 3
    /\ Len(StoredHotspots) = 3
    /\ ResponsesOf(stored[1]) = EndToEndResponses
    /\ ResponsesOf(stored[2]) = DefaultResponses
    /\ StoredHotspots[1].fields["label"] = JStr("Bite Risk: Critical Risk")
    /\ StoredHotspots[1].fields["risk"] = stored[1].fields["risk_score"]

(***************************************************************************)
(* Properties of the feeding slots (FeedSpec).                             *)
(***************************************************************************)
\* C26: whatever the interleaving of 'Book This Slot' and 'Cancel My
\* Booking' from several sessions, each acting on the snapshot in its
\* session state, every stored slot has 0 <= booked <= slots, booked equal
\* to the number of its bookings, and no email twice in its bookings.
C26_SlotCapacity ==
    \A i \in 1..Len(StoredSlots(files)) :
        LET slot == StoredSlots(files)[i] IN
        /\ 0 <= BookedOf(slot) /\ BookedOf(slot) <= TotalOf(slot)
        /\ BookedOf(slot) = Len(BookingsOf(slot))
        /\ \A j, k \in 1..Len(BookingsOf(slot)) :
              j # k => BookingsOf(slot)[j] # BookingsOf(slot)[k]

\* two sessions booked the last place of a slot from the same snapshot: the
\* slot is stored full with the later session's volunteer, the snapshot of
\* the other session holds the booking that was overwritten
C26_Witness ==
    /\ Len(StoredSlots(files)) >= 1
    /\ LET slot == StoredSlots(files)[1] IN
       /\ TotalOf(slot) = 2 /\ BookedOf(slot) = 2
       /\ \E s, t \in Sessions :
             /\ emailOf[s] # emailOf[t]
             /\ selected_slot[s] # NoSlot /\ selected_slot[t] # NoSlot
             /\ SameSlot(selected_slot[s], slot) /\ SameSlot(selected_slot[t], slot)
             /\ BookedOf(selected_slot[s]) = 2 /\ BookedOf(selected_slot[t]) = 2
             /\ selected_slot[s] # selected_slot[t]
             /\ feedData[s] = JNull /\ feedData[t] = JNull
             /\ selected_slot[t] = slot

(***************************************************************************)
(* Properties of the SOS lifecycle (SosSpec).                              *)
(***************************************************************************)
\* the place of a status in the lifecycle
StatusRank(status) ==
    CASE status = "active" -> 0 [] status = "dispatched" -> 1 [] OTHER -> 2

\* the stored status does not move back, and a dispatched SOS keeps its
\* responder
Forward(old, new) ==
    /\ StatusRank(StatusOf(new)) >= StatusRank(StatusOf(old))
    /\ StatusOf(old) # "active" => AssignedOf(new) = AssignedOf(old)

\* C27 as stated: for any interleaving of accept, assign and resolve from
\* several sessions, each reading the sos collection and then writing it
\* back whole, the stored status only moves active -> dispatched ->
\* resolved and never back, and once the SOS is dispatched its 'assigned'
\* responder is never replaced.
C27_LifecycleForward == [][Forward(StoredSos(files), StoredSos(files'))]_vars

\* the same for the handlers whose run read what is stored when they write
C27_ForwardWhenReadIsCurrent ==
    [][\A r \in Sessions :
          (sosRun[r] = ReadList(files, SosKey) /\ sosRun'[r] = JNull)
          => Forward(StoredSos(files), StoredSos(files'))]_vars

\* the stored status never returns to active
C27_NeverActiveAgain ==
    [][StatusOf(StoredSos(files)) # "active" => StatusOf(StoredSos(files')) # "active"]_vars

\* the SOS was dispatched to one responder and then to the other
C27_Witness ==
    /\ Len(assignedLog) = 2
    /\ assignedLog[1] # assignedLog[2]
    /\ AssignedOf(StoredSos(files)) = JStr(assignedLog[2])
    /\ StatusOf(StoredSos(files)) = "dispatched"
====
